---- MODULE Spec2Model ----
(***************************************************************************)
(* Ray lifecycle, detector termination and distribution fitting of the     *)
(* FROSTI real-time ray tracer (js/simulation.js, js/rays.js,              *)
(* js/renderer.js termination section, the ellipse intersection module,    *)
(* js/constraints.js, js/controls.js, js/gaussian.js, js/KDE.js).          *)
(*                                                                         *)
(* Numbers.  The JavaScript works on doubles.  The model works on a        *)
(* lattice: positions and step vectors are integers, an intersection       *)
(* point is kept in tenths of a lattice unit (PosScale), a unit normal in  *)
(* hundredths (NormScale), a root t of the quadratic as a fraction         *)
(* num/den, Math.sqrt as the integer square root and a division as the     *)
(* nearest lattice value.  Statistics (mean, variance, density) are exact  *)
(* fractions num/den.                                                      *)
(*                                                                         *)
(* Control.  The page is single threaded: a handler runs to completion.    *)
(* updateSimulation is split into its sequential steps (pc, idx) so that   *)
(* the states inside one tick can be observed; while a tick is in progress *)
(* no other handler is enabled.                                            *)
(***************************************************************************)
EXTENDS Integers, Sequences, FiniteSets, TLC

(***************************************************************************)
(* Bounds of the model                                                     *)
(***************************************************************************)
MaxFrames == 4

MaxRayIds == 2

\* js/renderer.js:1244 terminationBounds = R_tm, on the model's lattice
terminationBounds == 3

(***************************************************************************)
(* Program constants                                                       *)
(***************************************************************************)
terminationX == 0

binSize == 50

PosScale == 10

NormScale == 100

(***************************************************************************)
(* Arithmetic helpers                                                      *)
(***************************************************************************)
Abs(n) == IF n < 0 THEN -n ELSE n

Sign(n) == IF n < 0 THEN -1 ELSE IF n > 0 THEN 1 ELSE 0

Max2(m, n) == IF m >= n THEN m ELSE n

\* Math.floor(n / d) for d # 0
FloorDiv(n, d) == IF d > 0 THEN n \div d ELSE (-n) \div (-d)

\* n / d rounded to the nearest lattice value (ties away from zero), d # 0
RoundDiv(n, d) ==
    LET nn == IF d > 0 THEN n ELSE -n
        dd == Abs(d)
    IN  IF nn >= 0 THEN (2 * nn + dd) \div (2 * dd)
                   ELSE -((2 * (-nn) + dd) \div (2 * dd))

RECURSIVE IsqrtBetween(_, _, _)
IsqrtBetween(n, lo, hi) ==
    IF lo >= hi THEN lo
    ELSE LET mid == (lo + hi + 1) \div 2
         IN  IF mid * mid <= n THEN IsqrtBetween(n, mid, hi)
                               ELSE IsqrtBetween(n, lo, mid - 1)

\* Math.sqrt on the lattice: the largest r with r*r <= n
Isqrt(n) == IF n <= 0 THEN 0 ELSE IsqrtBetween(n, 0, IF n < 46340 THEN n ELSE 46340)

(***************************************************************************)
(* State                                                                   *)
(***************************************************************************)
VARIABLES
    rays,                       \* the live ray array (a sequence of Ray records)
    terminationCounts,          \* Map bin key -> hit count
    frameCount,
    isRunning,
    animationId,                \* id of the last requested animation frame, 0 = null
    pendingFrames,              \* ids of requested frames not yet fired or cancelled
    emissionRate,
    maxBounces,
    raySpeed,
    rayLifetime,
    sourceLength,               \* length of the source line (geometry slider)
    enableProximityConstraint,
    enableApertureConstraint,
    pc,                         \* position inside updateSimulation, "idle" outside
    idx,                        \* index of the ray the forEach callback works on
    normal,                     \* result of checkEllipseIntersection for rays[idx]
    nextRayId,                  \* history: serial number given to the next Ray
    recorded,                   \* history: terminations recorded since the last clear
    lastOp,                     \* history: the handler or step that ran last
    ret                         \* result of the last accessor / function call

vars == <<rays, terminationCounts, frameCount, isRunning, animationId,
          pendingFrames, emissionRate, maxBounces, raySpeed, rayLifetime,
          sourceLength, enableProximityConstraint, enableApertureConstraint,
          pc, idx, normal, nextRayId, recorded, lastOp, ret>>

(***************************************************************************)
(* Geometry: getEllipseConstants / computeSourceLine for the slider        *)
(* position theta = 0, sourceLength = targetLength = 6, dist_sor_tar = 8,  *)
(* verticalOffset = 0 (lattice units).                                     *)
(***************************************************************************)
Geometry == [z0 |-> 8, a |-> 3, b |-> 3, voffset |-> 0,
             sinT |-> 0, cosT |-> 1, tanT |-> 0]

\* Math.atan2(y, x) kept as the rotation (cos, sin) = (c, s) / d
Rot(y, x) ==
    IF y = 0 THEN [c |-> Sign(x), s |-> 0, d |-> 1]
             ELSE [c |-> x, s |-> y, d |-> Isqrt(x * x + y * y)]

getEllipseConstants ==
    LET g    == Geometry
        z0   == g.z0
        a    == g.a
        b    == g.b
        ht   == RoundDiv(z0 + b * g.sinT, 2)
        hl   == RoundDiv(z0 - b * g.sinT, 2)
        kt   == RoundDiv(z0 * g.tanT - b * g.cosT - a, 2) + g.voffset
        kl   == RoundDiv(z0 * g.tanT + b * g.cosT + a, 2) + g.voffset
        lt   == RoundDiv(Isqrt((z0 + b * g.sinT) * (z0 + b * g.sinT)
                    + (a - b * g.cosT + z0 * g.tanT) * (a - b * g.cosT + z0 * g.tanT)), 2)
        ll   == RoundDiv(Isqrt((z0 - b * g.sinT) * (z0 - b * g.sinT)
                    + (b * g.cosT + z0 * g.tanT - a) * (b * g.cosT + z0 * g.tanT - a)), 2)
        ct   == RoundDiv(Isqrt((z0 - b * g.sinT) * (z0 - b * g.sinT)
                    + (a + b * g.cosT + z0 * g.tanT) * (a + b * g.cosT + z0 * g.tanT)), 2) + b
        cl   == RoundDiv(Isqrt((z0 + b * g.sinT) * (z0 + b * g.sinT)
                    + (z0 * g.tanT - a - b * g.cosT) * (z0 * g.tanT - a - b * g.cosT)), 2) + b
        dtSq == ct * ct - lt * lt
        dlSq == cl * cl - ll * ll
    IN  [ht |-> ht, hl |-> hl, kt |-> kt, kl |-> kl, ct |-> ct, cl |-> cl,
         \* dt, dl are square roots; the solver only uses their squares
         dt2 |-> Max2(dtSq, 0), dl2 |-> Max2(dlSq, 0),
         phit |-> Rot(z0 * g.tanT - b * g.cosT + a, z0 + b * g.sinT),
         phil |-> Rot(z0 * g.tanT + b * g.cosT - a, z0 - b * g.sinT),
         \* slopes as fractions num / den
         slopetN |-> z0 * g.tanT - b * g.cosT - a, slopetD |-> z0 + b * g.sinT,
         slopelN |-> z0 * g.tanT + b * g.cosT + a, slopelD |-> z0 - b * g.sinT,
         interseptt |-> a + g.voffset, interseptl |-> -a + g.voffset]

getEllipseMaskLine(ellipseType) ==
    LET e == getEllipseConstants
    IN  IF ellipseType = "upper"
        THEN [sn |-> e.slopetN, sd |-> e.slopetD, intercept |-> e.interseptt,
              endX |-> Geometry.z0 + Geometry.b * Geometry.sinT, startX |-> 0]
        ELSE [sn |-> e.slopelN, sd |-> e.slopelD, intercept |-> e.interseptl,
              endX |-> Geometry.z0 - Geometry.b * Geometry.sinT, startX |-> 0]

\* maskLine.a * x + maskLine.b * y + maskLine.c for a point in PosScale units,
\* multiplied by the positive factor |sd|
LineValue(x, y, maskLine) ==
    Sign(maskLine.sd) * (-maskLine.sn * x + maskLine.sd * y
                         - maskLine.intercept * maskLine.sd * PosScale)

isPointAboveMaskLine(x, y, maskLine) == LineValue(x, y, maskLine) > 0

\* a mask check that rejects every point outside the line's x-range
isPointWithinMask_RangeStrict(x, y, maskLine, ellipse) ==
    LET withinBounds == x >= maskLine.startX * PosScale /\ x <= maskLine.endX * PosScale
        isAbove      == isPointAboveMaskLine(x, y, maskLine)
        onLine       == LineValue(x, y, maskLine) = 0
    IN  IF ~withinBounds THEN FALSE
        ELSE IF ellipse = "Upper" THEN isAbove \/ onLine
        ELSE IF ellipse = "Lower" THEN ~isAbove \/ onLine
        ELSE TRUE

\* a mask check that keeps the same side of the line for both reflectors
isPointWithinMask_SameSide(x, y, maskLine, ellipse) ==
    LET withinBounds == x >= maskLine.startX * PosScale /\ x <= maskLine.endX * PosScale
        isAbove      == isPointAboveMaskLine(x, y, maskLine)
        onLine       == LineValue(x, y, maskLine) = 0
    IN  IF ~withinBounds THEN TRUE ELSE isAbove \/ onLine

isPointWithinMask(x, y, maskLine, ellipse) ==
    LET withinBounds == x >= maskLine.startX * PosScale /\ x <= maskLine.endX * PosScale
        isAbove      == isPointAboveMaskLine(x, y, maskLine)
        \* |distance to the line| < 1e-6: on the lattice, exactly on the line
        onLine       == LineValue(x, y, maskLine) = 0
    IN  IF ~withinBounds THEN TRUE
        ELSE IF ellipse = "Upper" THEN isAbove \/ onLine
        ELSE IF ellipse = "Lower" THEN ~isAbove \/ onLine
        ELSE TRUE

(***************************************************************************)
(* Intersection solver (ellipse intersection module)                       *)
(***************************************************************************)
NoHit == [ok |-> FALSE]

\* a fraction num / den with den # 0 lies in [0, 1]
FracInUnit(n, d) == IF d > 0 THEN 0 <= n /\ n <= d ELSE 0 >= n /\ n >= d

\* n1/d1 < n2/d2 for fractions in [0, 1]
FracLess(n1, d1, n2, d2) == Abs(n1) * Abs(d2) < Abs(n2) * Abs(d1)

\* the point ray + t * (dx, dy) for t = n / d, in PosScale units
IntersectionPoint(ray, n, d) ==
    [ok |-> TRUE,
     x  |-> RoundDiv((ray.x * d + ray.dx * raySpeed * n) * PosScale, d),
     y  |-> RoundDiv((ray.y * d + ray.dy * raySpeed * n) * PosScale, d),
     tn |-> IF d > 0 THEN n ELSE -n,
     td |-> Abs(d)]

\* a choice among the roots that takes the last valid one of [t1, t2]
selectRoot_LastValid(ray, A, B, C, sqrtDisc) ==
    LET t1 == IF B >= 0 THEN <<-B - sqrtDisc, 2 * A>> ELSE <<2 * C, -B + sqrtDisc>>
        t2 == IF B >= 0 THEN <<2 * C, -B - sqrtDisc>> ELSE <<-B + sqrtDisc, 2 * A>>
    IN  IF t2[2] # 0 /\ FracInUnit(t2[1], t2[2]) THEN IntersectionPoint(ray, t2[1], t2[2])
        ELSE IF t1[2] # 0 /\ FracInUnit(t1[1], t1[2])
             THEN IntersectionPoint(ray, t1[1], t1[2])
        ELSE NoHit

\* the numerically stable pair of roots and the choice among them
selectRoot(ray, A, B, C, sqrtDisc) ==
    LET \* t1, t2 as fractions; a zero denominator is Infinity / NaN
        t1 == IF B >= 0 THEN <<-B - sqrtDisc, 2 * A>> ELSE <<2 * C, -B + sqrtDisc>>
        t2 == IF B >= 0 THEN <<2 * C, -B - sqrtDisc>> ELSE <<-B + sqrtDisc, 2 * A>>
        ok1 == t1[2] # 0 /\ FracInUnit(t1[1], t1[2])
        ok2 == t2[2] # 0 /\ FracInUnit(t2[1], t2[2])
    IN  IF ok1 /\ ok2
        THEN IF FracLess(t2[1], t2[2], t1[1], t1[2])
             THEN IntersectionPoint(ray, t2[1], t2[2])
             ELSE IntersectionPoint(ray, t1[1], t1[2])
        ELSE IF ok1 THEN IntersectionPoint(ray, t1[1], t1[2])
        ELSE IF ok2 THEN IntersectionPoint(ray, t2[1], t2[2])
        ELSE NoHit

\* A t^2 + B t + C = 0 for t in [0, 1]
solveQuadratic(ray, A, B, C) ==
    IF A = 0
    THEN IF B = 0 THEN NoHit
         ELSE IF FracInUnit(-C, B) THEN IntersectionPoint(ray, -C, B) ELSE NoHit
    ELSE IF B * B - 4 * A * C < 0 THEN NoHit
    ELSE selectRoot(ray, A, B, C, Isqrt(B * B - 4 * A * C))

findEllipseIntersection(ray, h, k, a2, b2, phi) ==
    LET ox  == ray.x - h
        oy  == ray.y - k
        dx  == ray.dx * raySpeed
        dy  == ray.dy * raySpeed
        \* rotated coordinates, multiplied by phi.d
        rx  == ox * phi.c + oy * phi.s
        ry  == -ox * phi.s + oy * phi.c
        rdx == dx * phi.c + dy * phi.s
        rdy == -dx * phi.s + dy * phi.c
    IN  IF dx = 0 /\ dy = 0 THEN NoHit
        \* A, B, C multiplied by a2 * b2 * phi.d^2 > 0
        ELSE solveQuadratic(ray,
                 rdx * rdx * b2 + rdy * rdy * a2,
                 2 * (rx * rdx * b2 + ry * rdy * a2),
                 rx * rx * b2 + ry * ry * a2 - a2 * b2 * phi.d * phi.d)

NoNormal == [ok |-> FALSE]

\* a sign correction with the test inverted: it flips the vector that
\* already points away from the centre
outwardNormal_Inward(wX, wY, dx, dy) ==
    IF wX * dx + wY * dy > 0 THEN [ok |-> TRUE, x |-> -wX, y |-> -wY]
    ELSE [ok |-> TRUE, x |-> wX, y |-> wY]

\* the world-space vector (wX, wY), flipped when it points into the ellipse
outwardNormal(wX, wY, dx, dy) ==
    IF wX * dx + wY * dy < 0 THEN [ok |-> TRUE, x |-> -wX, y |-> -wY]
    ELSE [ok |-> TRUE, x |-> wX, y |-> wY]

\* the gradient (gx, gy) of magnitude mag, normalised and rotated back
normalFromGradient(gx, gy, mag, dx, dy, phi) ==
    IF mag = 0 THEN NoNormal
    ELSE outwardNormal(
             RoundDiv(RoundDiv(gx * NormScale, mag) * phi.c
                      - RoundDiv(gy * NormScale, mag) * phi.s, phi.d),
             RoundDiv(RoundDiv(gx * NormScale, mag) * phi.s
                      + RoundDiv(gy * NormScale, mag) * phi.c, phi.d),
             dx, dy)

\* x, y in PosScale units; the result is a unit vector in NormScale units
calculateEllipseNormal(x, y, h, k, a2, b2, phi) ==
    LET dx   == x - h * PosScale
        dy   == y - k * PosScale
        xRot == dx * phi.c + dy * phi.s
        yRot == -dx * phi.s + dy * phi.c
        \* the gradient (2 xRot / a2, 2 yRot / b2), multiplied by a2 * b2 / 2
    IN  normalFromGradient(xRot * b2, yRot * a2,
                           Isqrt(xRot * b2 * xRot * b2 + yRot * a2 * yRot * a2),
                           dx, dy, phi)

\* the intersection record returned for a point and its normal
intersectionResult(intersection, n, ellipse) ==
    IF ~n.ok \/ (n.x = 0 /\ n.y = 0) THEN NoHit
    ELSE [ok |-> TRUE, x |-> intersection.x, y |-> intersection.y,
          normal |-> [x |-> n.x, y |-> n.y],
          tn |-> intersection.tn, td |-> intersection.td,
          ellipse |-> ellipse]

\* mask test and normal of a point found by findEllipseIntersection
acceptIntersection(intersection, h, k, a2, b2, phi, maskLine, ellipse) ==
    IF ~intersection.ok THEN NoHit
    ELSE IF ~isPointWithinMask(intersection.x, intersection.y, maskLine, ellipse)
         THEN NoHit
    ELSE intersectionResult(intersection,
             calculateEllipseNormal(intersection.x, intersection.y, h, k, a2, b2, phi),
             ellipse)

checkSingleEllipseIntersection(ray, h, k, a2, b2, phi, maskLine, ellipse) ==
    IF a2 <= 0 \/ b2 <= 0 THEN NoHit
    ELSE acceptIntersection(findEllipseIntersection(ray, h, k, a2, b2, phi),
                            h, k, a2, b2, phi, maskLine, ellipse)

upperResult(ray) ==
    LET e == getEllipseConstants
    IN  checkSingleEllipseIntersection(ray, e.ht, e.kt, e.ct * e.ct, e.dt2, e.phit,
                                       getEllipseMaskLine("upper"), "Upper")

lowerResult(ray) ==
    LET e == getEllipseConstants
    IN  checkSingleEllipseIntersection(ray, e.hl, e.kl, e.cl * e.cl, e.dl2, e.phil,
                                       getEllipseMaskLine("lower"), "Lower")

\* isaboveProximity() has an empty body and returns undefined, so reading
\* proximityLimits.x / proximityLimits.y raises a TypeError.  Both reads are
\* guarded by the short-circuit ||.
ConstraintCheckThrows == ~enableProximityConstraint \/ ~enableApertureConstraint

\* the list `intersections` after the sort by distance (stable: upper first)
intersections(u, l) ==
    IF u.ok /\ l.ok
    THEN IF FracLess(l.tn, l.td, u.tn, u.td) THEN <<l, u>> ELSE <<u, l>>
    ELSE IF u.ok THEN <<u>>
    ELSE IF l.ok THEN <<l>>
    ELSE <<>>

\* the constraint test on each result and the choice of the closest one
closestIntersection(u, l) ==
    IF (u.ok \/ l.ok) /\ ConstraintCheckThrows
    THEN [throws |-> TRUE, hit |-> NoHit]
    ELSE [throws |-> FALSE,
          hit |-> IF intersections(u, l) = <<>> THEN NoHit ELSE intersections(u, l)[1]]

\* [throws |-> TRUE] or [throws |-> FALSE, hit |-> closest intersection or NoHit];
\* the function returns hit.normal (null when there is no hit)
checkEllipseIntersection(ray) == closestIntersection(upperResult(ray), lowerResult(ray))

(***************************************************************************)
(* Culling (js/constraints.js)                                             *)
(***************************************************************************)
insideEllipse(x, y, h, k, c2, d2, phi) ==
    LET xPrime == (x - h) * phi.c + (y - k) * phi.s
        yPrime == -(x - h) * phi.s + (y - k) * phi.c
    IN  xPrime * xPrime * d2 + yPrime * yPrime * c2 <= c2 * d2 * phi.d * phi.d

isOutsideAperture(x, y) ==
    LET e == getEllipseConstants
        insideUpper == insideEllipse(x, y, e.ht, e.kt, e.ct * e.ct, e.dt2, e.phit)
        insideLower == insideEllipse(x, y, e.hl, e.kl, e.cl * e.cl, e.dl2, e.phil)
    IN  ~insideUpper /\ ~insideLower

deleteRays(ray) ==
    IF 2 * ray.x > Geometry.z0 /\ isOutsideAperture(ray.x, ray.y)
    THEN [ray EXCEPT !.active = FALSE]
    ELSE ray

(***************************************************************************)
(* Termination recorder (js/renderer.js, termination section)              *)
(***************************************************************************)
\* a binning that truncates toward zero instead of taking the floor
getBinnedY_Trunc(y) ==
    (IF y >= 0 THEN y \div binSize ELSE -((-y) \div binSize)) * binSize

getBinnedY(y) == FloorDiv(y, binSize) * binSize

\* a recorder that stores 1 instead of adding 1 to the bin
IncrementBin_Overwrite(counts, key) ==
    [b \in DOMAIN counts \cup {key} |-> IF b = key THEN 1 ELSE counts[b]]

\* terminationCounts.set(key, (terminationCounts.get(key) || 0) + 1)
IncrementBin(counts, key) ==
    IF key \in DOMAIN counts
    THEN [counts EXCEPT ![key] = @ + 1]
    ELSE [b \in DOMAIN counts \cup {key} |-> IF b = key THEN 1 ELSE counts[b]]

\* the segment p1 -> p2 touches or crosses the line x = terminationX
CrossesLine(p1, p2) ==
    \/ (p1.x <= terminationX /\ p2.x >= terminationX)
    \/ (p1.x >= terminationX /\ p2.x <= terminationX)

\* p1.y + t * (p2.y - p1.y) with t = (terminationX - p1.x) / (p2.x - p1.x)
IntersectionY(p1, p2) ==
    RoundDiv(p1.y * (p2.x - p1.x) + (terminationX - p1.x) * (p2.y - p1.y),
             p2.x - p1.x)

\* a check that looks at the first segment of the path instead of the last
checkTerminationCollision_FirstSegment(ray, counts) ==
    LET path == ray.path
        p1   == path[1]
        p2   == path[2]
        miss == [ray |-> ray, counts |-> counts, ret |-> FALSE]
    IN  IF ~ray.active THEN miss
        ELSE IF Len(path) < 2 THEN miss
        ELSE IF ~CrossesLine(p1, p2) THEN miss
        ELSE IF p2.x = p1.x THEN miss
        ELSE IF Abs(IntersectionY(p1, p2)) <= terminationBounds
             THEN [ray |-> [ray EXCEPT !.active = FALSE,
                                       !.x = terminationX,
                                       !.y = IntersectionY(p1, p2),
                                       !.path = [path EXCEPT ![Len(path)] =
                                           [x |-> terminationX, y |-> IntersectionY(p1, p2)]]],
                   counts |-> IncrementBin(counts, getBinnedY(IntersectionY(p1, p2))),
                   ret |-> TRUE]
        ELSE miss

\* a check without the test of ray.active
checkTerminationCollision_NoActiveGuard(ray, counts) ==
    LET path == ray.path
        p1   == path[Len(path) - 1]
        p2   == path[Len(path)]
        miss == [ray |-> ray, counts |-> counts, ret |-> FALSE]
    IN  IF Len(path) < 2 THEN miss
        ELSE IF ~CrossesLine(p1, p2) THEN miss
        ELSE IF p2.x = p1.x THEN miss
        ELSE IF Abs(IntersectionY(p1, p2)) <= terminationBounds
             THEN [ray |-> [ray EXCEPT !.active = FALSE,
                                       !.x = terminationX,
                                       !.y = IntersectionY(p1, p2),
                                       !.path = [path EXCEPT ![Len(path)] =
                                           [x |-> terminationX, y |-> IntersectionY(p1, p2)]]],
                   counts |-> IncrementBin(counts, getBinnedY(IntersectionY(p1, p2))),
                   ret |-> TRUE]
        ELSE miss

\* result: the ray and the histogram after the call and the value returned
checkTerminationCollision(ray, counts) ==
    LET path == ray.path
        p1   == path[Len(path) - 1]
        p2   == path[Len(path)]
        miss == [ray |-> ray, counts |-> counts, ret |-> FALSE]
    IN  IF ~ray.active THEN miss
        ELSE IF Len(path) < 2 THEN miss
        ELSE IF ~CrossesLine(p1, p2) THEN miss
        \* p2.x = p1.x: t is NaN and the comparison with the bounds is false
        ELSE IF p2.x = p1.x THEN miss
        ELSE IF Abs(IntersectionY(p1, p2)) <= terminationBounds
             THEN [ray |-> [ray EXCEPT !.active = FALSE,
                                       !.x = terminationX,
                                       !.y = IntersectionY(p1, p2),
                                       !.path = [path EXCEPT ![Len(path)] =
                                           [x |-> terminationX, y |-> IntersectionY(p1, p2)]]],
                   counts |-> IncrementBin(counts, getBinnedY(IntersectionY(p1, p2))),
                   ret |-> TRUE]
        ELSE miss

(***************************************************************************)
(* Ray (js/rays.js)                                                        *)
(***************************************************************************)
\* new Ray(x, y, angle) with (cos angle, sin angle) = (dx, dy); id is history
Ray(id, x, y, dx, dy) ==
    [id |-> id, startX |-> x, startY |-> y, x |-> x, y |-> y, dx |-> dx, dy |-> dy,
     active |-> TRUE, bounces |-> 0, path |-> <<[x |-> x, y |-> y]>>,
     age |-> 0, maxAge |-> rayLifetime]

\* a step that never records the point it moved to
RayStep_NoPathPoint(ray, speed, counts) ==
    LET moved == [ray EXCEPT !.x = @ + ray.dx * speed,
                             !.y = @ + ray.dy * speed,
                             !.age = @ + 1]
    IN  IF ~ray.active THEN [ray |-> ray, counts |-> counts, ret |-> FALSE]
        ELSE IF moved.age > moved.maxAge
             THEN [ray |-> [moved EXCEPT !.active = FALSE], counts |-> counts, ret |-> FALSE]
        ELSE checkTerminationCollision(moved, counts)

\* ray.step(speed): the ray and the histogram afterwards, and whether the
\* termination check recorded a hit
RayStep(ray, speed, counts) ==
    LET moved == [ray EXCEPT !.x = @ + ray.dx * speed,
                             !.y = @ + ray.dy * speed,
                             !.age = @ + 1]
        pushed == [moved EXCEPT !.path = Append(@, [x |-> moved.x, y |-> moved.y])]
        tc == checkTerminationCollision(pushed, counts)
    IN  IF ~ray.active THEN [ray |-> ray, counts |-> counts, ret |-> FALSE]
        ELSE IF moved.age > moved.maxAge
             THEN [ray |-> [moved EXCEPT !.active = FALSE], counts |-> counts, ret |-> FALSE]
        ELSE tc

\* a reflect that deactivates only above the limit (> for >=)
RayReflect_OffByOne(ray, n) ==
    LET dot == ray.dx * n.x + ray.dy * n.y
        nb  == ray.bounces + 1
    IN  [ray EXCEPT !.dx = RoundDiv(ray.dx * NormScale * NormScale - 2 * dot * n.x,
                                    NormScale * NormScale),
                    !.dy = RoundDiv(ray.dy * NormScale * NormScale - 2 * dot * n.y,
                                    NormScale * NormScale),
                    !.bounces = nb,
                    !.active = IF nb > maxBounces THEN FALSE ELSE @]

\* ray.reflect(normal), normal in NormScale units
RayReflect(ray, n) ==
    LET dot == ray.dx * n.x + ray.dy * n.y
        nb  == ray.bounces + 1
    IN  [ray EXCEPT !.dx = RoundDiv(ray.dx * NormScale * NormScale - 2 * dot * n.x,
                                    NormScale * NormScale),
                    !.dy = RoundDiv(ray.dy * NormScale * NormScale - 2 * dot * n.y,
                                    NormScale * NormScale),
                    !.bounces = nb,
                    !.active = IF nb >= maxBounces THEN FALSE ELSE @]

(***************************************************************************)
(* Emission (js/rays.js, js/geometry.js computeSourceLine)                 *)
(***************************************************************************)
computeSourceLine ==
    LET tx == -Geometry.sinT
        ty == Geometry.cosT
        midX == Geometry.z0
        midY == Geometry.z0 * Geometry.tanT + Geometry.voffset
        halfLength == sourceLength \div 2
    IN  [x1 |-> midX - halfLength * tx, y1 |-> midY - halfLength * ty,
         x2 |-> midX + halfLength * tx, y2 |-> midY + halfLength * ty]

\* Math.random() for the position: t = k / 6 for k in EmitT
EmitT == {0, 3}

\* (cos, sin) of the emission angle: within a quarter turn of the normal
\* (-1, 0) of the source line
EmitDirs == {<<-1, 0>>, <<-1, 1>>, <<-1, -1>>}

\* the value JavaScript arithmetic gives for 0 / 0
NaN == "NaN"

\* (cos, sin) of the emission angles of a source line: length = 0 makes the
\* normal (-dy / length, dx / length) NaN, and with it every emission angle
EmissionDirs(s) ==
    IF s.x1 = s.x2 /\ s.y1 = s.y2 THEN {<<NaN, NaN>>} ELSE EmitDirs

\* an emission loop that runs once too often ("i <= emissionRate")
RECURSIVE EmittedRays_Inclusive(_, _)
EmittedRays_Inclusive(n, firstId) ==
    LET s == computeSourceLine
        last == { <<Ray(firstId, s.x1 + ((s.x2 - s.x1) * t) \div 6,
                                 s.y1 + ((s.y2 - s.y1) * t) \div 6, d[1], d[2])>> :
                    t \in EmitT, d \in EmitDirs }
    IN  IF n = 0 THEN last
        ELSE { one \o rest : one \in last,
                              rest \in EmittedRays_Inclusive(n - 1, firstId + 1) }

\* the rays one call of emitNewRays can append: n rays, each with its own
\* random position and angle
RECURSIVE EmittedRaysFrom(_, _, _, _)
EmittedRaysFrom(n, firstId, ts, dirs) ==
    IF n = 0 THEN {<<>>}
    ELSE LET s == computeSourceLine
         IN  { <<Ray(firstId,
                     s.x1 + ((s.x2 - s.x1) * t) \div 6,
                     s.y1 + ((s.y2 - s.y1) * t) \div 6,
                     d[1], d[2])>> \o rest :
                 t \in ts, d \in dirs,
                 rest \in EmittedRaysFrom(n - 1, firstId + 1, ts, dirs) }

\* the draws of Math.random() range over EmitT and the emission directions
EmittedRays(n, firstId) ==
    EmittedRaysFrom(n, firstId, EmitT, EmissionDirs(computeSourceLine))

(***************************************************************************)
(* Slider positions the model lets the user choose                         *)
(***************************************************************************)
EmissionRates == {1, 2}

MaxBouncesValues == {1, 2}

RaySpeeds == {2}

RayLifetimes == {2, 4}

EmptyCounts == [b \in {} |-> 0]

NoResult == [op |-> "none"]

Init ==
    /\ rays = <<>>
    /\ terminationCounts = EmptyCounts
    /\ frameCount = 0
    /\ isRunning = FALSE
    /\ animationId = 0
    /\ pendingFrames = {}
    /\ emissionRate = 1
    /\ maxBounces = 2
    /\ raySpeed = 2
    /\ rayLifetime = 4
    /\ sourceLength = 6
    /\ enableProximityConstraint = FALSE
    /\ enableApertureConstraint = FALSE
    /\ pc = "idle"
    /\ idx = 0
    /\ normal = NoHit
    /\ nextRayId = 1
    /\ recorded = 0
    /\ lastOp = "init"
    /\ ret = NoResult

(***************************************************************************)
(* updateSimulation, step by step                                          *)
(***************************************************************************)
\* an emission test with the period 9 - emissionRate
EmissionDue_ShortPeriod == frameCount % Max2(1, 9 - emissionRate) = 0

EmissionDue == frameCount % Max2(1, 10 - emissionRate) = 0

\* animate() past its isRunning test: updateSimulation starts on the ray
\* array rs, emitNewRays runs when due, and the forEach is about to visit the
\* first ray
BeginTickOn(rs, frameCap, idCap, newRays) ==
    /\ frameCount < frameCap
    /\ IF EmissionDue
       THEN /\ nextRayId + emissionRate - 1 <= idCap
            /\ \E new \in newRays : rays' = rs \o new
            /\ nextRayId' = nextRayId + emissionRate
       ELSE /\ rays' = rs
            /\ UNCHANGED nextRayId
    /\ idx' = 1
    /\ pc' = IF Len(rays') = 0 THEN "filter" ELSE "step"
    /\ normal' = NoHit

\* the tick within the bounds of the model
BeginTick(rs) == BeginTickOn(rs, MaxFrames, MaxRayIds, EmittedRays(emissionRate, nextRayId))

\* the forEach moves on to the next ray, or the loop is over
Advance ==
    /\ idx' = idx + 1
    /\ pc' = IF idx + 1 > Len(rays) THEN "filter" ELSE "step"

\* a loop body without "if (!ray.active) return": every ray is stepped and
\* passed on to the solver
TickStep_NoSkip ==
    /\ pc = "step"
    /\ LET r == RayStep(rays[idx], raySpeed, terminationCounts)
       IN  /\ rays' = [rays EXCEPT ![idx] = r.ray]
           /\ terminationCounts' = r.counts
           /\ recorded' = IF r.ret THEN recorded + 1 ELSE recorded
           /\ pc' = "solve"
           /\ idx' = idx
           /\ lastOp' = "step"
    /\ UNCHANGED <<sourceLength, frameCount, isRunning, animationId, pendingFrames, emissionRate,
                   maxBounces, raySpeed, rayLifetime, enableProximityConstraint,
                   enableApertureConstraint, normal, nextRayId, ret>>

\* if (!ray.active) return;  ray.step(raySpeed);
TickStep ==
    /\ pc = "step"
    /\ IF ~rays[idx].active
       THEN /\ Advance
            /\ UNCHANGED <<rays, terminationCounts, recorded>>
            /\ lastOp' = "skip"
       ELSE LET r == RayStep(rays[idx], raySpeed, terminationCounts)
            IN  /\ rays' = [rays EXCEPT ![idx] = r.ray]
                /\ terminationCounts' = r.counts
                /\ recorded' = IF r.ret THEN recorded + 1 ELSE recorded
                /\ pc' = "solve"
                /\ idx' = idx
                /\ lastOp' = "step"
    /\ UNCHANGED <<sourceLength, frameCount, isRunning, animationId, pendingFrames, emissionRate,
                   maxBounces, raySpeed, rayLifetime, enableProximityConstraint,
                   enableApertureConstraint, normal, nextRayId, ret>>

\* const normal = checkEllipseIntersection(ray);  a TypeError raised inside
\* leaves updateSimulation and animate: no filter, no frameCount++, no
\* requestAnimationFrame
TickSolve ==
    /\ pc = "solve"
    /\ LET r == checkEllipseIntersection(rays[idx])
       IN  IF r.throws
           THEN /\ pc' = "idle"
                /\ normal' = NoHit
                /\ lastOp' = "throw"
           ELSE /\ pc' = "reflect"
                /\ normal' = r.hit
                /\ lastOp' = "solve"
    /\ UNCHANGED <<sourceLength, rays, terminationCounts, frameCount, isRunning, animationId,
                   pendingFrames, emissionRate, maxBounces, raySpeed, rayLifetime,
                   enableProximityConstraint, enableApertureConstraint, idx,
                   nextRayId, recorded, ret>>

\* if (normal) ray.reflect(normal);
TickReflect ==
    /\ pc = "reflect"
    /\ IF normal.ok
       THEN /\ rays' = [rays EXCEPT ![idx] = RayReflect(rays[idx], normal.normal)]
            /\ lastOp' = "reflect"
       ELSE /\ UNCHANGED rays
            /\ lastOp' = "noreflect"
    /\ pc' = "cull"
    /\ UNCHANGED <<sourceLength, terminationCounts, frameCount, isRunning, animationId,
                   pendingFrames, emissionRate, maxBounces, raySpeed, rayLifetime,
                   enableProximityConstraint, enableApertureConstraint, idx, normal,
                   nextRayId, recorded, ret>>

\* deleteRays(ray);
TickCull ==
    /\ pc = "cull"
    /\ rays' = [rays EXCEPT ![idx] = deleteRays(rays[idx])]
    /\ Advance
    /\ lastOp' = "cull"
    /\ UNCHANGED <<sourceLength, terminationCounts, frameCount, isRunning, animationId,
                   pendingFrames, emissionRate, maxBounces, raySpeed, rayLifetime,
                   enableProximityConstraint, enableApertureConstraint, normal,
                   nextRayId, recorded, ret>>

\* an end of tick without "rays = rays.filter(ray => ray.active)"
TickEnd_NoFilter ==
    /\ pc = "filter"
    /\ rays' = rays
    /\ frameCount' = frameCount + 1
    /\ animationId' = frameCount + 1
    /\ pendingFrames' = pendingFrames \cup {frameCount + 1}
    /\ pc' = "idle"
    /\ idx' = 0
    /\ lastOp' = "tick"
    /\ UNCHANGED <<sourceLength, terminationCounts, isRunning, emissionRate, maxBounces,
                   raySpeed, rayLifetime, enableProximityConstraint,
                   enableApertureConstraint, normal, nextRayId, recorded, ret>>

\* rays = rays.filter(ray => ray.active); frameCount++;  then, back in
\* animate, animationId = requestAnimationFrame(animate).  Frame handles are
\* distinct; the model uses the new frameCount as the handle.
TickEnd ==
    /\ pc = "filter"
    /\ rays' = SelectSeq(rays, LAMBDA r : r.active)
    /\ frameCount' = frameCount + 1
    /\ animationId' = frameCount + 1
    /\ pendingFrames' = pendingFrames \cup {frameCount + 1}
    /\ pc' = "idle"
    /\ idx' = 0
    /\ lastOp' = "tick"
    /\ UNCHANGED <<sourceLength, terminationCounts, isRunning, emissionRate, maxBounces, raySpeed,
                   rayLifetime, enableProximityConstraint, enableApertureConstraint,
                   normal, nextRayId, recorded, ret>>

(***************************************************************************)
(* Handlers (js/controls.js, js/simulation.js animate)                     *)
(***************************************************************************)
\* an updateValues that leaves the rays in flight alone
ApplyLifetime_NotRetroactive(rs, lifetime) == rs

\* the part of updateValues that touches the modelled state
ApplyLifetime(rs, lifetime) == [i \in DOMAIN rs |-> [rs[i] EXCEPT !.maxAge = lifetime]]

\* an 'input' event of a slider: updateValues() re-reads every slider (the
\* geometry sliders stay where they are) and rescales every live ray's maxAge
UpdateValues ==
    /\ pc = "idle"
    /\ emissionRate' \in EmissionRates
    /\ maxBounces' \in MaxBouncesValues
    /\ raySpeed' \in RaySpeeds
    /\ rayLifetime' \in RayLifetimes
    /\ rays' = ApplyLifetime(rays, rayLifetime')
    /\ lastOp' = "updateValues"
    /\ UNCHANGED <<sourceLength, terminationCounts, frameCount, isRunning, animationId,
                   pendingFrames, enableProximityConstraint, enableApertureConstraint,
                   pc, idx, normal, nextRayId, recorded, ret>>

\* a pause that clears the flag and forgets cancelAnimationFrame(animationId)
ClickPause_NoCancel ==
    /\ pc = "idle"
    /\ isRunning
    /\ isRunning' = FALSE
    /\ lastOp' = "pause"
    /\ UNCHANGED <<sourceLength, rays, terminationCounts, frameCount, animationId,
                   pendingFrames, emissionRate, maxBounces, raySpeed, rayLifetime,
                   enableProximityConstraint, enableApertureConstraint, pc, idx,
                   normal, nextRayId, recorded, ret>>

\* startBtn click while running: pause
ClickPause ==
    /\ pc = "idle"
    /\ isRunning
    /\ isRunning' = FALSE
    /\ pendingFrames' = IF animationId # 0 THEN pendingFrames \ {animationId}
                                          ELSE pendingFrames
    /\ lastOp' = "pause"
    /\ UNCHANGED <<sourceLength, rays, terminationCounts, frameCount, animationId, emissionRate,
                   maxBounces, raySpeed, rayLifetime, enableProximityConstraint,
                   enableApertureConstraint, pc, idx, normal, nextRayId, recorded, ret>>

\* startBtn click while stopped: updateValues(); isRunning = true; animate()
ClickStartOn(frameCap, idCap, newRays) ==
    /\ pc = "idle"
    /\ ~isRunning
    /\ isRunning' = TRUE
    /\ BeginTickOn(ApplyLifetime(rays, rayLifetime), frameCap, idCap, newRays)
    /\ lastOp' = "start"
    /\ UNCHANGED <<sourceLength, terminationCounts, frameCount, animationId, pendingFrames,
                   emissionRate, maxBounces, raySpeed, rayLifetime,
                   enableProximityConstraint, enableApertureConstraint, recorded, ret>>

ClickStart == ClickStartOn(MaxFrames, MaxRayIds, EmittedRays(emissionRate, nextRayId))

\* a requested animation frame fires: animate()
FrameFiresOn(frameCap, idCap, newRays) ==
    /\ pc = "idle"
    /\ \E id \in pendingFrames : pendingFrames' = pendingFrames \ {id}
    /\ IF isRunning
       THEN BeginTickOn(rays, frameCap, idCap, newRays)
       ELSE UNCHANGED <<rays, nextRayId, idx, pc, normal>>
    /\ lastOp' = "frame"
    /\ UNCHANGED <<sourceLength, terminationCounts, frameCount, isRunning, animationId,
                   emissionRate, maxBounces, raySpeed, rayLifetime,
                   enableProximityConstraint, enableApertureConstraint, recorded, ret>>

FrameFires == FrameFiresOn(MaxFrames, MaxRayIds, EmittedRays(emissionRate, nextRayId))

clearTerminationCounts == EmptyCounts

\* resetBtn click
ClickReset ==
    /\ pc = "idle"
    /\ isRunning' = FALSE
    /\ pendingFrames' = IF animationId # 0 THEN pendingFrames \ {animationId}
                                          ELSE pendingFrames
    /\ rays' = <<>>
    /\ terminationCounts' = clearTerminationCounts
    /\ recorded' = 0
    /\ ret' = [op |-> "clearTerminationCounts", cleared |-> recorded]
    /\ lastOp' = "reset"
    /\ UNCHANGED <<sourceLength, frameCount, animationId, emissionRate, maxBounces, raySpeed,
                   rayLifetime, enableProximityConstraint, enableApertureConstraint,
                   pc, idx, normal, nextRayId>>

\* a clearRay click that also stops the simulation, as the reset click does
ClickClearRay_Stops ==
    /\ pc = "idle"
    /\ rays' = <<>>
    /\ isRunning' = FALSE
    /\ pendingFrames' = pendingFrames \ {animationId}
    /\ lastOp' = "clearRay"
    /\ UNCHANGED <<sourceLength, terminationCounts, frameCount, animationId,
                   emissionRate, maxBounces, raySpeed, rayLifetime,
                   enableProximityConstraint, enableApertureConstraint, pc, idx,
                   normal, nextRayId, recorded, ret>>

\* clearRay click
ClickClearRay ==
    /\ pc = "idle"
    /\ rays' = <<>>
    /\ lastOp' = "clearRay"
    /\ UNCHANGED <<sourceLength, terminationCounts, frameCount, isRunning, animationId,
                   pendingFrames, emissionRate, maxBounces, raySpeed, rayLifetime,
                   enableProximityConstraint, enableApertureConstraint, pc, idx,
                   normal, nextRayId, recorded, ret>>

\* resetOverlays click: resetHistogram(); resetKDE()
ClickResetOverlays ==
    /\ pc = "idle"
    /\ terminationCounts' = clearTerminationCounts
    /\ recorded' = 0
    /\ ret' = [op |-> "clearTerminationCounts", cleared |-> recorded]
    /\ lastOp' = "resetOverlays"
    /\ UNCHANGED <<sourceLength, rays, frameCount, isRunning, animationId, pendingFrames,
                   emissionRate, maxBounces, raySpeed, rayLifetime,
                   enableProximityConstraint, enableApertureConstraint, pc, idx,
                   normal, nextRayId>>

\* toggleConstraints click.  The button starts in class toggle-on with both
\* flags false and each click swaps class and flags, so the class is on
\* exactly when the flags are false.
ToggleConstraints ==
    /\ pc = "idle"
    /\ enableProximityConstraint' = ~enableProximityConstraint
    /\ enableApertureConstraint' = ~enableProximityConstraint
    /\ lastOp' = "toggleConstraints"
    /\ UNCHANGED <<sourceLength, rays, terminationCounts, frameCount, isRunning, animationId,
                   pendingFrames, emissionRate, maxBounces, raySpeed, rayLifetime,
                   pc, idx, normal, nextRayId, recorded, ret>>

Next ==
    \/ TickStep
    \/ TickSolve
    \/ TickReflect
    \/ TickCull
    \/ TickEnd
    \/ UpdateValues
    \/ ClickPause
    \/ ClickStart
    \/ FrameFires
    \/ ClickReset
    \/ ClickClearRay
    \/ ClickResetOverlays
    \/ ToggleConstraints

Spec == Init /\ [][Next]_vars

(***************************************************************************)
(* Histogram statistics and fits (js/renderer.js getTerminationStats,      *)
(* js/gaussian.js, js/KDE.js).  A Map is modelled as a function from bin   *)
(* to count; its iteration order (insertion order in the program) is taken *)
(* to be ascending bin order, and the sums below do not depend on it.      *)
(***************************************************************************)
RECURSIVE Gcd(_, _)
Gcd(m, n) == IF n = 0 THEN Abs(m) ELSE Gcd(n, m % n)

\* a fraction num/den (den > 0) in lowest terms
Reduce(f) ==
    LET g == Gcd(Abs(f.num), f.den)
    IN  [num |-> f.num \div g, den |-> f.den \div g]

\* sum of w[b] * counts[b] over the bins of a histogram
RECURSIVE WeightedSum(_, _, _)
WeightedSum(counts, bins, w) ==
    IF bins = {} THEN 0
    ELSE LET b == CHOOSE k \in bins : TRUE
         IN  w[b] * counts[b] + WeightedSum(counts, bins \ {b}, w)

SumCounts(counts) == WeightedSum(counts, DOMAIN counts, [b \in DOMAIN counts |-> 1])

Null == [null |-> TRUE]

\* a getTerminationStats that hands out the histogram itself instead of a copy
getTerminationStats_Alias ==
    LET bins  == DOMAIN terminationCounts
        maxC  == IF bins = {} THEN 0
                 ELSE CHOOSE c \in {terminationCounts[b] : b \in bins} :
                          \A b \in bins : terminationCounts[b] <= c
        first == {b \in bins : terminationCounts[b] = maxC /\ maxC > 0}
    IN  [totalTerminations |-> SumCounts(terminationCounts),
         distribution      |-> terminationCounts,
         shared            |-> TRUE,
         maxCount          |-> maxC,
         mostHitBin        |-> IF first = {} THEN Null
                               ELSE CHOOSE b \in first : \A c \in first : b <= c]

\* distribution: new Map(terminationCounts) is a fresh Map; `shared` records
\* whether the distribution handed out is the object terminationCounts itself
getTerminationStats ==
    LET bins  == DOMAIN terminationCounts
        maxC  == IF bins = {} THEN 0
                 ELSE CHOOSE c \in {terminationCounts[b] : b \in bins} :
                          \A b \in bins : terminationCounts[b] <= c
        first == {b \in bins : terminationCounts[b] = maxC /\ maxC > 0}
    IN  [totalTerminations |-> SumCounts(terminationCounts),
         distribution      |-> terminationCounts,
         shared            |-> FALSE,
         maxCount          |-> maxC,
         mostHitBin        |-> IF first = {} THEN Null
                               ELSE CHOOSE b \in first : \A c \in first : b <= c]

\* a fit whose mean is the plain average of the bin positions, counts ignored
fitGaussianToTerminationData_Unweighted ==
    LET stats == getTerminationStats
        dist  == stats.distribution
        bins  == DOMAIN dist
        n     == SumCounts(dist)
        k     == Cardinality(bins)
        s     == WeightedSum([b \in bins |-> 1], bins, [b \in bins |-> b])
    IN  IF stats.totalTerminations = 0 THEN Null
        ELSE IF bins = {} THEN Null
        ELSE [amplitude |-> CHOOSE c \in {dist[b] : b \in bins} :
                                \A b \in bins : dist[b] <= c,
              mean      |-> [num |-> s, den |-> k],
              variance  |-> [num |-> WeightedSum(dist, bins,
                                         [b \in bins |-> (b * k - s) * (b * k - s)]),
                             den |-> k * k * n],
              totalHits |-> n]

\* a fit without the test for an empty histogram: 0 / 0 and Math.max() of
\* nothing
fitGaussianToTerminationData_NoEmptyCheck ==
    LET stats == getTerminationStats
        dist  == stats.distribution
        bins  == DOMAIN dist
        n     == SumCounts(dist)
        s     == WeightedSum(dist, bins, [b \in bins |-> b])
    IN  [amplitude |-> stats.maxCount,
         mean      |-> [num |-> s, den |-> n],
         variance  |-> [num |-> WeightedSum(dist, bins,
                                    [b \in bins |-> (b * n - s) * (b * n - s)]),
                        den |-> n * n * n],
         totalHits |-> n]

\* mean = weightedSum / totalHits; variance = weightedVarianceSum / totalHits
\* with deviation = position - mean = (position * totalHits - weightedSum) /
\* totalHits; amplitude = Math.max(...counts)
fitGaussianToTerminationData ==
    LET stats == getTerminationStats
        dist  == stats.distribution
        bins  == DOMAIN dist
        n     == SumCounts(dist)
        s     == WeightedSum(dist, bins, [b \in bins |-> b])
    IN  IF stats.totalTerminations = 0 THEN Null
        ELSE IF bins = {} THEN Null
        ELSE [amplitude |-> CHOOSE c \in {dist[b] : b \in bins} :
                                \A b \in bins : dist[b] <= c,
              mean      |-> [num |-> s, den |-> n],
              variance  |-> [num |-> WeightedSum(dist, bins,
                                         [b \in bins |-> (b * n - s) * (b * n - s)]),
                             den |-> n * n * n],
              totalHits |-> n]

\* the histogram expanded into one data point per recorded hit
RECURSIVE ExpandBins(_, _)
ExpandBins(counts, bins) ==
    IF bins = {} THEN <<>>
    ELSE LET b == CHOOSE k \in bins : \A c \in bins : k <= c
         IN  [i \in 1..counts[b] |-> b] \o ExpandBins(counts, bins \ {b})

RECURSIVE SeqSum(_)
SeqSum(s) == IF s = <<>> THEN 0 ELSE Head(s) + SeqSum(Tail(s))

\* Math.pow(n, -1/5) in fiftieths: the largest r with (r/50)^5 * n <= 1
PowMinusFifth(n) ==
    CHOOSE r \in 0..50 :
        /\ r * r * r * r * r <= 312500000 \div n
        /\ (r < 50 => (r + 1) * (r + 1) * (r + 1) * (r + 1) * (r + 1) > 312500000 \div n)

\* Silverman's rule, in hundredths: max(1.06 * sigma * n^(-1/5), 0.1)
calculateOptimalBandwidth(data) ==
    IF Len(data) = 0 THEN 100
    ELSE LET n   == Len(data)
             s   == SeqSum(data)
             s2  == SeqSum([i \in DOMAIN data |-> data[i] * data[i]])
             sd  == (100 * Isqrt(n * s2 - s * s)) \div n
         IN  Max2((106 * sd * PowMinusFifth(n)) \div 5000, 10)

\* kernelType is kept as given; KERNEL_FUNCTIONS[kernelType] ||
\* KERNEL_FUNCTIONS.gaussian is the kernel.  bandwidth is in hundredths and
\* 0 stands for an omitted (null) bandwidth.
KernelNames == {"gaussian", "epanechnikov", "uniform", "triangular", "biweight"}

fitKDEToTerminationData(kernelType, bandwidth) ==
    LET stats      == getTerminationStats
        dataPoints == ExpandBins(stats.distribution, DOMAIN stats.distribution)
        n          == Len(dataPoints)
        s          == SeqSum(dataPoints)
    IN  IF stats.totalTerminations = 0 THEN Null
        ELSE IF n = 0 THEN Null
        ELSE [dataPoints |-> dataPoints,
              bandwidth  |-> IF bandwidth # 0 THEN bandwidth
                             ELSE calculateOptimalBandwidth(dataPoints),
              kernelType |-> kernelType,
              kernel     |-> IF kernelType \in KernelNames THEN kernelType
                             ELSE "gaussian",
              mean       |-> [num |-> s, den |-> n],
              variance   |-> [num |-> SeqSum([i \in 1..n |->
                                  (dataPoints[i] * n - s) * (dataPoints[i] * n - s)]),
                              den |-> n * n * n],
              totalPoints |-> n]

\* the kernels whose values are rational (the gaussian kernel is not among
\* them and is not evaluated here)
RationalKernels == {"uniform", "triangular"}

\* KERNEL_FUNCTIONS[kernel]((y - sample) / h) as a numerator over
\* kernelDen(kernel, bandwidth); d = y - sample, bandwidth in hundredths
kernelNum(kernel, d, bandwidth) ==
    IF 100 * Abs(d) > bandwidth THEN 0
    ELSE IF kernel = "uniform" THEN 1
    ELSE bandwidth - 100 * Abs(d)

kernelDen(kernel, bandwidth) == IF kernel = "uniform" THEN 2 ELSE bandwidth

\* an evaluation that leaves out the division by n * h
evaluateKDE_Unnormalised(y, kdeParams) ==
    IF kdeParams = Null THEN [num |-> 0, den |-> 1]
    ELSE [num |-> SeqSum([i \in DOMAIN kdeParams.dataPoints |->
                             kernelNum(kdeParams.kernel, y - kdeParams.dataPoints[i],
                                       kdeParams.bandwidth)]),
          den |-> kernelDen(kdeParams.kernel, kdeParams.bandwidth)]

\* evaluateKDE(y, kdeParams): sum of kernel((y - y_i) / h) over n * h, as a
\* fraction (h = bandwidth / 100)
evaluateKDE(y, kdeParams) ==
    IF kdeParams = Null THEN [num |-> 0, den |-> 1]
    ELSE [num |-> 100 * SeqSum([i \in DOMAIN kdeParams.dataPoints |->
                             kernelNum(kdeParams.kernel, y - kdeParams.dataPoints[i],
                                       kdeParams.bandwidth)]),
          den |-> kernelDen(kdeParams.kernel, kdeParams.bandwidth)
                    * Len(kdeParams.dataPoints) * kdeParams.bandwidth]

\* the densities at the grid points yMin + i * step, i = 0..resolution, as
\* numerators over the common denominator n * h (times the kernel's)
gridDensities(kdeParams, yMin, step, resolution) ==
    [i \in 0..resolution |-> evaluateKDE(yMin + i * step, kdeParams).num]

\* indices of the local maxima (peaks)
localMaxima(d, resolution) ==
    {i \in 1..(resolution - 1) : d[i] > d[i - 1] /\ d[i] > d[i + 1]}

\* modes.sort((a, b) => b.density - a.density): highest first, equal
\* densities in grid order
RECURSIVE sortByDensity(_, _)
sortByDensity(is, d) ==
    IF is = {} THEN <<>>
    ELSE LET top == CHOOSE i \in is :
                       \A j \in is : d[i] > d[j] \/ (d[i] = d[j] /\ i <= j)
         IN  <<top>> \o sortByDensity(is \ {top}, d)

\* the ascending sequence of a set of indices
RECURSIVE inGridOrder(_)
inGridOrder(is) ==
    IF is = {} THEN <<>>
    ELSE LET first == CHOOSE i \in is : \A j \in is : i <= j
         IN  <<first>> \o inGridOrder(is \ {first})

modeRecords(order, kdeParams, yMin, step) ==
    [n \in DOMAIN order |->
        [position |-> yMin + order[n] * step,
         density  |-> evaluateKDE(yMin + order[n] * step, kdeParams)]]

\* a mode search that leaves the peaks in grid order
findKDEModes_Unsorted(kdeParams, yMin, yMax, resolution) ==
    IF kdeParams = Null THEN <<>>
    ELSE modeRecords(
             inGridOrder(localMaxima(
                 gridDensities(kdeParams, yMin, (yMax - yMin) \div resolution, resolution),
                 resolution)),
             kdeParams, yMin, (yMax - yMin) \div resolution)

\* findKDEModes(kdeParams, yMin, yMax, resolution) for a step
\* (yMax - yMin) / resolution that is a whole number
findKDEModes(kdeParams, yMin, yMax, resolution) ==
    IF kdeParams = Null THEN <<>>
    ELSE modeRecords(
             sortByDensity(
                 localMaxima(
                     gridDensities(kdeParams, yMin, (yMax - yMin) \div resolution,
                                   resolution),
                     resolution),
                 gridDensities(kdeParams, yMin, (yMax - yMin) \div resolution, resolution)),
             kdeParams, yMin, (yMax - yMin) \div resolution)

(***************************************************************************)
(* The detector check on its own: checkTerminationCollision applied to     *)
(* rays with paths of one to three points and to histograms that already   *)
(* hold hits.  All path coordinates are even, so every crossing of the     *)
(* line lies on the lattice.                                               *)
(***************************************************************************)
PathXs == {-2, 0, 2}

PathYs == {-4, -2, 0, 2, 4}

PathPoints == [x : PathXs, y : PathYs]

Paths == { <<p>> : p \in PathPoints }
           \cup { <<p, q>> : p \in PathPoints, q \in PathPoints }
           \cup { <<p, q, r>> : p \in PathPoints, q \in PathPoints, r \in PathPoints }

Histograms0 == { EmptyCounts, [b \in {0} |-> 1], [b \in {-50, 0} |-> 2] }

RayOnPath(path, active) ==
    [id |-> 1, startX |-> path[1].x, startY |-> path[1].y,
     x |-> path[Len(path)].x, y |-> path[Len(path)].y, dx |-> -1, dy |-> 0,
     active |-> active, bounces |-> 0, path |-> path,
     age |-> Len(path) - 1, maxAge |-> rayLifetime]

InitTC ==
    /\ rayLifetime = 4
    /\ sourceLength = 6
    /\ \E path \in Paths, active \in BOOLEAN : rays = <<RayOnPath(path, active)>>
    /\ terminationCounts \in Histograms0
    /\ frameCount = 0
    /\ isRunning = FALSE
    /\ animationId = 0
    /\ pendingFrames = {}
    /\ emissionRate = 1
    /\ maxBounces = 2
    /\ raySpeed = 2
    /\ enableProximityConstraint = FALSE
    /\ enableApertureConstraint = FALSE
    /\ pc = "idle"
    /\ idx = 0
    /\ normal = NoHit
    /\ nextRayId = 2
    /\ recorded = SumCounts(terminationCounts)
    /\ lastOp = "init"
    /\ ret = NoResult

\* checkTerminationCollision(ray): ret keeps the value returned together
\* with the ray and the histogram the call started from
CallCheckTerminationCollision ==
    LET r == checkTerminationCollision(rays[1], terminationCounts)
    IN  /\ rays' = <<r.ray>>
        /\ terminationCounts' = r.counts
        /\ recorded' = IF r.ret THEN recorded + 1 ELSE recorded
        /\ ret' = [op |-> "checkTerminationCollision", value |-> r.ret,
                   ray |-> rays[1], counts |-> terminationCounts]
        /\ lastOp' = "checkTerminationCollision"
        /\ UNCHANGED <<sourceLength, frameCount, isRunning, animationId, pendingFrames,
                       emissionRate, maxBounces, raySpeed, rayLifetime,
                       enableProximityConstraint, enableApertureConstraint,
                       pc, idx, normal, nextRayId>>

\* ray.step(raySpeed) on the same ray: ret keeps the ray and the histogram
\* the call started from and whether the step recorded a hit
CallStep ==
    LET r == RayStep(rays[1], raySpeed, terminationCounts)
    IN  /\ rays' = <<r.ray>>
        /\ terminationCounts' = r.counts
        /\ recorded' = IF r.ret THEN recorded + 1 ELSE recorded
        /\ ret' = [op |-> "step", value |-> r.ret,
                   ray |-> rays[1], counts |-> terminationCounts]
        /\ lastOp' = "step"
        /\ UNCHANGED <<sourceLength, frameCount, isRunning, animationId, pendingFrames,
                       emissionRate, maxBounces, raySpeed, rayLifetime,
                       enableProximityConstraint, enableApertureConstraint,
                       pc, idx, normal, nextRayId>>

NextTC ==
    \/ CallCheckTerminationCollision
    \/ CallStep

SpecTC == InitTC /\ [][NextTC]_vars

(***************************************************************************)
(* The fits on their own: the accessors applied to histograms of up to     *)
(* four bins                                                               *)
(***************************************************************************)
FitBins == {-50, 0, 50, 100}

FitCounts == {1, 5, 10}

FitHistograms == UNION { [bins -> FitCounts] : bins \in SUBSET FitBins }

FitKernels == {"gaussian", "uniform", "triangular"}

FitBandwidths == {0, 2500}

\* the live rays while the accessors are called
FitRays == { <<>>, <<Ray(1, 6, 2, -1, 1)>>, <<Ray(1, 4, -3, -1, 0), Ray(2, 8, 0, -1, -1)>> }

InitFit ==
    /\ rayLifetime = 4
    /\ sourceLength = 6
    /\ rays \in FitRays
    /\ terminationCounts \in FitHistograms
    /\ frameCount = 0
    /\ isRunning = FALSE
    /\ animationId = 0
    /\ pendingFrames = {}
    /\ emissionRate = 1
    /\ maxBounces = 2
    /\ raySpeed = 2
    /\ enableProximityConstraint = FALSE
    /\ enableApertureConstraint = FALSE
    /\ pc = "idle"
    /\ idx = 0
    /\ normal = NoHit
    /\ nextRayId = Len(rays) + 1
    /\ recorded = SumCounts(terminationCounts)
    /\ lastOp = "init"
    /\ ret = NoResult

CallFitGaussian ==
    /\ ret' = [op |-> "fitGaussianToTerminationData",
               value |-> fitGaussianToTerminationData]
    /\ lastOp' = "fitGaussianToTerminationData"
    /\ UNCHANGED <<sourceLength, rays, terminationCounts, frameCount, isRunning, animationId,
                   pendingFrames, emissionRate, maxBounces, raySpeed, rayLifetime,
                   enableProximityConstraint, enableApertureConstraint, pc, idx,
                   normal, nextRayId, recorded>>

CallFitKDE ==
    /\ \E k \in FitKernels, h \in FitBandwidths :
          ret' = [op |-> "fitKDEToTerminationData", kernelType |-> k,
                  bandwidth |-> h, value |-> fitKDEToTerminationData(k, h)]
    /\ lastOp' = "fitKDEToTerminationData"
    /\ UNCHANGED <<sourceLength, rays, terminationCounts, frameCount, isRunning, animationId,
                   pendingFrames, emissionRate, maxBounces, raySpeed, rayLifetime,
                   enableProximityConstraint, enableApertureConstraint, pc, idx,
                   normal, nextRayId, recorded>>

CallGetTerminationStats ==
    /\ ret' = [op |-> "getTerminationStats", value |-> getTerminationStats]
    /\ lastOp' = "getTerminationStats"
    /\ UNCHANGED <<sourceLength, rays, terminationCounts, frameCount, isRunning, animationId,
                   pendingFrames, emissionRate, maxBounces, raySpeed, rayLifetime,
                   enableProximityConstraint, enableApertureConstraint, pc, idx,
                   normal, nextRayId, recorded>>

\* the value a caller writes into a snapshot it was handed
SnapshotWrite == 7

\* the caller of getTerminationStats writes into the Map it was handed:
\* stats.distribution.set(k, SnapshotWrite).  The write reaches the histogram
\* only if the two are the same object.  ret keeps the snapshot as returned
\* (orig) and as written to (value).
MutateSnapshot ==
    /\ ret.op = "getTerminationStats"
    /\ \E k \in FitBins :
          LET written == [b \in DOMAIN ret.value.distribution \cup {k} |->
                             IF b = k THEN SnapshotWrite ELSE ret.value.distribution[b]]
          IN  /\ ret' = [op |-> "mutateSnapshot", orig |-> ret.value,
                         value |-> [ret.value EXCEPT !.distribution = written]]
              /\ terminationCounts' = IF ret.value.shared THEN written
                                      ELSE terminationCounts
    /\ lastOp' = "mutateSnapshot"
    /\ UNCHANGED <<sourceLength, rays, frameCount, isRunning, animationId,
                   pendingFrames, emissionRate, maxBounces, raySpeed, rayLifetime,
                   enableProximityConstraint, enableApertureConstraint, pc, idx,
                   normal, nextRayId, recorded>>

\* positions the density is asked for
EvalYs == {-50, 0, 25, 200}

\* evaluateKDE(y, kdeParams) on the fit just returned
CallEvaluateKDE ==
    /\ ret.op = "fitKDEToTerminationData"
    /\ ret.value # Null => ret.value.kernel \in RationalKernels
    /\ \E y \in EvalYs :
          ret' = [op |-> "evaluateKDE", y |-> y, kdeParams |-> ret.value,
                  value |-> evaluateKDE(y, ret.value)]
    /\ lastOp' = "evaluateKDE"
    /\ UNCHANGED <<sourceLength, rays, terminationCounts, frameCount, isRunning, animationId,
                   pendingFrames, emissionRate, maxBounces, raySpeed, rayLifetime,
                   enableProximityConstraint, enableApertureConstraint, pc, idx,
                   normal, nextRayId, recorded>>

\* the grids searched: yMin = -100, yMax = 100 (the defaults) with steps of
\* 50 and 25
ModeResolutions == {4, 8}

\* findKDEModes(kdeParams, -100, 100, resolution) on the fit just returned
CallFindKDEModes ==
    /\ ret.op = "fitKDEToTerminationData"
    /\ ret.value # Null => ret.value.kernel \in RationalKernels
    /\ \E resolution \in ModeResolutions :
          ret' = [op |-> "findKDEModes", kdeParams |-> ret.value,
                  resolution |-> resolution,
                  value |-> findKDEModes(ret.value, -100, 100, resolution)]
    /\ lastOp' = "findKDEModes"
    /\ UNCHANGED <<sourceLength, rays, terminationCounts, frameCount, isRunning, animationId,
                   pendingFrames, emissionRate, maxBounces, raySpeed, rayLifetime,
                   enableProximityConstraint, enableApertureConstraint, pc, idx,
                   normal, nextRayId, recorded>>

NextFit ==
    \/ CallFitGaussian
    \/ CallFitKDE
    \/ CallGetTerminationStats
    \/ MutateSnapshot
    \/ CallEvaluateKDE
    \/ CallFindKDEModes

SpecFit == InitFit /\ [][NextFit]_vars

(***************************************************************************)
(* emitNewRays applied as a function (js/rays.js): SpecEmit starts with a  *)
(* source length, an emission rate and a live set, and calls it once       *)
(***************************************************************************)
\* values of the global sourceLength the function is called with
EmitSourceLengths == {0, 2, 6}

InitEmit ==
    /\ rayLifetime \in RayLifetimes
    /\ sourceLength \in EmitSourceLengths
    /\ emissionRate \in EmissionRates
    /\ rays \in FitRays
    /\ terminationCounts = EmptyCounts
    /\ frameCount = 0
    /\ isRunning = FALSE
    /\ animationId = 0
    /\ pendingFrames = {}
    /\ maxBounces = 2
    /\ raySpeed = 2
    /\ enableProximityConstraint = FALSE
    /\ enableApertureConstraint = FALSE
    /\ pc = "idle"
    /\ idx = 0
    /\ normal = NoHit
    /\ nextRayId = Len(rays) + 1
    /\ recorded = 0
    /\ lastOp = "init"
    /\ ret = NoResult

\* emitNewRays(): it has no throw statement and no test of the length, so
\* the call always returns normally after its pushes
CallEmitNewRays ==
    /\ ret = NoResult
    /\ \E new \in EmittedRays(emissionRate, nextRayId) : rays' = rays \o new
    /\ nextRayId' = nextRayId + emissionRate
    /\ ret' = [op |-> "emitNewRays", error |-> "none", before |-> rays]
    /\ lastOp' = "emitNewRays"
    /\ UNCHANGED <<sourceLength, terminationCounts, frameCount, isRunning, animationId,
                   pendingFrames, emissionRate, maxBounces, raySpeed, rayLifetime,
                   enableProximityConstraint, enableApertureConstraint, pc, idx,
                   normal, recorded>>

NextEmit == CallEmitNewRays

SpecEmit == InitEmit /\ [][NextEmit]_vars

(***************************************************************************)
(* The intersection solver applied as functions (ellipse intersection      *)
(* module): SpecSolve starts with one ray, a ray speed and the two         *)
(* constraint flags, and calls the solver's functions on them              *)
(***************************************************************************)
SolveXs == -5..13

SolveYs == -5..5

SolveDirs == {-1, 0, 1} \X {-1, 0, 1}

SolveSpeeds == {2, 4}

InitSolve ==
    /\ rayLifetime = 4
    /\ sourceLength = 6
    /\ rays \in { <<Ray(1, x, y, d[1], d[2])>> : x \in SolveXs, y \in SolveYs, d \in SolveDirs }
    /\ raySpeed \in SolveSpeeds
    /\ enableProximityConstraint \in BOOLEAN
    /\ enableApertureConstraint \in BOOLEAN
    /\ terminationCounts = EmptyCounts
    /\ frameCount = 0
    /\ isRunning = FALSE
    /\ animationId = 0
    /\ pendingFrames = {}
    /\ emissionRate = 1
    /\ maxBounces = 2
    /\ pc = "idle"
    /\ idx = 0
    /\ normal = NoHit
    /\ nextRayId = 2
    /\ recorded = 0
    /\ lastOp = "init"
    /\ ret = NoResult

\* what a call of checkEllipseIntersection(ray) gives its caller
checkEllipseIntersectionOutcome(r) ==
    IF r.throws THEN [op |-> "checkEllipseIntersection", error |-> "TypeError"]
    ELSE [op |-> "checkEllipseIntersection", error |-> "none",
          value |-> IF r.hit.ok THEN r.hit.normal ELSE Null]

CallCheckEllipseIntersection ==
    /\ ret' = checkEllipseIntersectionOutcome(checkEllipseIntersection(rays[1]))
    /\ lastOp' = "checkEllipseIntersection"
    /\ UNCHANGED <<sourceLength, rays, terminationCounts, frameCount, isRunning,
                   animationId, pendingFrames, emissionRate, maxBounces, raySpeed,
                   rayLifetime, enableProximityConstraint, enableApertureConstraint,
                   pc, idx, normal, nextRayId, recorded>>

\* the arguments checkEllipseIntersection passes on for one reflector
reflectorArgs(ellipse) ==
    LET e == getEllipseConstants
    IN  IF ellipse = "Upper"
        THEN [h |-> e.ht, k |-> e.kt, a2 |-> e.ct * e.ct, b2 |-> e.dt2, phi |-> e.phit,
              maskLine |-> getEllipseMaskLine("upper")]
        ELSE [h |-> e.hl, k |-> e.kl, a2 |-> e.cl * e.cl, b2 |-> e.dl2, phi |-> e.phil,
              maskLine |-> getEllipseMaskLine("lower")]

Reflectors == {"Upper", "Lower"}

findEllipseIntersectionFor(ray, g) ==
    findEllipseIntersection(ray, g.h, g.k, g.a2, g.b2, g.phi)

CallFindEllipseIntersection ==
    /\ \E ellipse \in Reflectors :
          ret' = [op |-> "findEllipseIntersection", ellipse |-> ellipse,
                  value |-> findEllipseIntersectionFor(rays[1], reflectorArgs(ellipse))]
    /\ lastOp' = "findEllipseIntersection"
    /\ UNCHANGED <<sourceLength, rays, terminationCounts, frameCount, isRunning,
                   animationId, pendingFrames, emissionRate, maxBounces, raySpeed,
                   rayLifetime, enableProximityConstraint, enableApertureConstraint,
                   pc, idx, normal, nextRayId, recorded>>

MaskLineTypes == {"upper", "lower"}

\* isPointWithinMask on the ray's position as the candidate point (the
\* intersection for t = 0), for either mask line and either reflector name
CallIsPointWithinMask ==
    /\ \E lineType \in MaskLineTypes, ellipse \in Reflectors :
          ret' = [op |-> "isPointWithinMask", lineType |-> lineType, ellipse |-> ellipse,
                  x |-> rays[1].x * PosScale, y |-> rays[1].y * PosScale,
                  value |-> isPointWithinMask(rays[1].x * PosScale, rays[1].y * PosScale,
                                              getEllipseMaskLine(lineType), ellipse)]
    /\ lastOp' = "isPointWithinMask"
    /\ UNCHANGED <<sourceLength, rays, terminationCounts, frameCount, isRunning,
                   animationId, pendingFrames, emissionRate, maxBounces, raySpeed,
                   rayLifetime, enableProximityConstraint, enableApertureConstraint,
                   pc, idx, normal, nextRayId, recorded>>

calculateEllipseNormalFor(x, y, g) ==
    calculateEllipseNormal(x, y, g.h, g.k, g.a2, g.b2, g.phi)

\* calculateEllipseNormal at the ray's position, for either reflector
CallCalculateEllipseNormal ==
    /\ \E ellipse \in Reflectors :
          ret' = [op |-> "calculateEllipseNormal", ellipse |-> ellipse,
                  x |-> rays[1].x * PosScale, y |-> rays[1].y * PosScale,
                  value |-> calculateEllipseNormalFor(rays[1].x * PosScale,
                                rays[1].y * PosScale, reflectorArgs(ellipse))]
    /\ lastOp' = "calculateEllipseNormal"
    /\ UNCHANGED <<sourceLength, rays, terminationCounts, frameCount, isRunning,
                   animationId, pendingFrames, emissionRate, maxBounces, raySpeed,
                   rayLifetime, enableProximityConstraint, enableApertureConstraint,
                   pc, idx, normal, nextRayId, recorded>>

NextSolve ==
    \/ CallCheckEllipseIntersection
    \/ CallFindEllipseIntersection
    \/ CallIsPointWithinMask
    \/ CallCalculateEllipseNormal

SpecSolve == InitSolve /\ [][NextSolve]_vars

(***************************************************************************)
(* The solver on a free-standing ellipse with no mask line                 *)
(* (checkSingleEllipseIntersection with maskLine = null): SpecScene starts *)
(* with one ray and a ray speed and solves against an unrotated ellipse    *)
(* centred at the origin                                                   *)
(***************************************************************************)
SceneXs == {-10, -7, -3, 0}

SceneYs == {-5, -3, 0, 3, 5}

SceneSpeeds == {4, 5, 10, 20}

\* semi-axes (a, b) of the ellipses solved against
SceneAxes == {<<5, 5>>, <<5, 3>>}

InitScene ==
    /\ rayLifetime = 4
    /\ sourceLength = 6
    /\ rays \in { <<Ray(1, x, y, d[1], d[2])>> : x \in SceneXs, y \in SceneYs, d \in SolveDirs }
    /\ raySpeed \in SceneSpeeds
    /\ enableProximityConstraint = FALSE
    /\ enableApertureConstraint = FALSE
    /\ terminationCounts = EmptyCounts
    /\ frameCount = 0
    /\ isRunning = FALSE
    /\ animationId = 0
    /\ pendingFrames = {}
    /\ emissionRate = 1
    /\ maxBounces = 2
    /\ pc = "idle"
    /\ idx = 0
    /\ normal = NoHit
    /\ nextRayId = 2
    /\ recorded = 0
    /\ lastOp = "init"
    /\ ret = NoResult

\* the arguments (h, k, a, b, phi) = (0, 0, a, b, 0)
originEllipse(a, b) ==
    [h |-> 0, k |-> 0, a2 |-> a * a, b2 |-> b * b, phi |-> Rot(0, 1)]

\* the normal of an intersection, as checkSingleEllipseIntersection asks for it
normalAt(intersection, g) ==
    IF ~intersection.ok THEN NoNormal
    ELSE calculateEllipseNormalFor(intersection.x, intersection.y, g)

\* findEllipseIntersection, then (the null mask line accepts every point)
\* calculateEllipseNormal at the point found
CallSolveUnmasked ==
    /\ \E ab \in SceneAxes :
          ret' = [op |-> "solveUnmasked", a |-> ab[1], b |-> ab[2],
                  intersection |-> findEllipseIntersectionFor(rays[1],
                                       originEllipse(ab[1], ab[2])),
                  normal |-> normalAt(findEllipseIntersectionFor(rays[1],
                                          originEllipse(ab[1], ab[2])),
                                      originEllipse(ab[1], ab[2]))]
    /\ lastOp' = "solveUnmasked"
    /\ UNCHANGED <<sourceLength, rays, terminationCounts, frameCount, isRunning,
                   animationId, pendingFrames, emissionRate, maxBounces, raySpeed,
                   rayLifetime, enableProximityConstraint, enableApertureConstraint,
                   pc, idx, normal, nextRayId, recorded>>

NextScene == CallSolveUnmasked

SpecScene == InitScene /\ [][NextScene]_vars

(***************************************************************************)
(* The emission schedule: ticks started at any frame count with any        *)
(* position of the emission slider.  Every emitted ray takes the same      *)
(* draws of Math.random(), so that runs with ten rays per tick stay small. *)
(***************************************************************************)
TickEmissionRates == 1..10

TickFrameCounts == 0..9

TickFrameCap == Cardinality(TickFrameCounts)

TickRayIds == Cardinality(TickFrameCounts \X TickEmissionRates)

EmittedRaysOneDraw(n, firstId) ==
    EmittedRaysFrom(n, firstId, {t \in EmitT : t # 0}, {d \in EmitDirs : d[2] = 0})

\* a paused simulation after frameCount ticks, rays cleared and overlays reset
InitTick ==
    /\ rayLifetime = 2
    /\ sourceLength = 6
    /\ rays = <<>>
    /\ terminationCounts = EmptyCounts
    /\ frameCount \in TickFrameCounts
    /\ isRunning = FALSE
    /\ animationId = frameCount
    /\ pendingFrames = {}
    /\ emissionRate \in TickEmissionRates
    /\ maxBounces = 2
    /\ raySpeed = 2
    /\ enableProximityConstraint = FALSE
    /\ enableApertureConstraint = FALSE
    /\ pc = "idle"
    /\ idx = 0
    /\ normal = NoHit
    /\ nextRayId = 1
    /\ recorded = 0
    /\ lastOp = "init"
    /\ ret = NoResult

TickClickStart == ClickStartOn(TickFrameCap, TickRayIds,
                 EmittedRaysOneDraw(emissionRate, nextRayId))

TickFrameFires == FrameFiresOn(TickFrameCap, TickRayIds,
                 EmittedRaysOneDraw(emissionRate, nextRayId))

NextTick ==
    \/ TickClickStart
    \/ TickFrameFires
    \/ TickStep
    \/ TickSolve
    \/ TickReflect
    \/ TickCull
    \/ TickEnd

SpecTick == InitTick /\ [][NextTick]_vars

(***************************************************************************)
(* Properties                                                              *)
(***************************************************************************)
\* the same Ray object before and after a step
SameRay(r, s) == r.id = s.id

\* C1: once a ray's active flag is false nothing changes the ray any more:
\* in every step, a ray that is inactive before the step has the same x, y,
\* dx, dy and bounces after it and is still inactive.
C1_InactiveIsTerminal ==
    [][\A i \in DOMAIN rays : \A j \in DOMAIN rays' :
          (SameRay(rays[i], rays'[j]) /\ ~rays[i].active)
              => /\ rays'[j].x = rays[i].x
                 /\ rays'[j].y = rays[i].y
                 /\ rays'[j].dx = rays[i].dx
                 /\ rays'[j].dy = rays[i].dy
                 /\ rays'[j].bounces = rays[i].bounces
                 /\ ~rays'[j].active]_vars

\* C2: the counts of the histogram always add up to the number of detector
\* terminations recorded since the last clear, and a step that is not a
\* clear removes no bin and lowers no count.
C2_HistogramCountsTerminations ==
    /\ [](SumCounts(terminationCounts) = recorded)
    /\ [][lastOp' \notin {"reset", "resetOverlays"}
            => \A b \in DOMAIN terminationCounts :
                   /\ b \in DOMAIN terminationCounts'
                   /\ terminationCounts'[b] >= terminationCounts[b]]_vars

\* two terminations have been recorded in the same bin
C2_Witness ==
    /\ recorded >= 2
    /\ \E b \in DOMAIN terminationCounts : terminationCounts[b] >= 2

\* C3 as stated: no ray is active with bounces >= maxBounces, also after
\* maxBounces was edited while rays are in flight.
C3_NoActiveRayAtLimit ==
    \A i \in DOMAIN rays : rays[i].active => rays[i].bounces < maxBounces

\* C3 amended: a ray's bounce count never decreases and grows by one at a
\* time; the reflection that takes it to maxBounces or beyond leaves the ray
\* inactive, a reflection that leaves it below maxBounces does not deactivate
\* the ray, and an inactive ray never becomes active again.  The limit is
\* compared at reflections only.
C3_BounceLimitAtReflect ==
    [][\A i \in DOMAIN rays : \A j \in DOMAIN rays' :
          SameRay(rays[i], rays'[j])
              => /\ rays'[j].bounces >= rays[i].bounces
                 /\ rays'[j].bounces <= rays[i].bounces + 1
                 /\ (rays'[j].bounces > rays[i].bounces /\ rays'[j].bounces >= maxBounces)
                        => ~rays'[j].active
                 /\ (rays'[j].bounces > rays[i].bounces /\ rays'[j].bounces < maxBounces)
                        => rays'[j].active = rays[i].active
                 /\ ~rays[i].active => ~rays'[j].active]_vars

\* a reflection has just taken an active ray to the limit and deactivated it
C3_Witness ==
    /\ pc = "cull"
    /\ lastOp = "reflect"
    /\ rays[idx].bounces = maxBounces
    /\ ~rays[idx].active

\* C4 as stated: a ray handed to the intersection solver is below the bounce
\* limit.
C4_NoSolveAtLimit ==
    pc = "solve" => rays[idx].bounces < maxBounces

\* C4 amended: the tick loop skips dead rays.  A ray that is inactive when
\* the loop reaches it is left as it is and the loop moves on; only a ray
\* that was active when the loop reached it is handed to the solver, and
\* only a ray just handed to the solver is reflected.
C4_DeadRaysSkipped ==
    [][/\ (pc = "step" /\ ~rays[idx].active)
            => (rays' = rays /\ idx' = idx + 1 /\ pc' \in {"step", "filter"})
       /\ pc' = "solve" => (pc = "step" /\ rays[idx].active /\ idx' = idx)
       /\ pc' = "reflect" => (pc = "solve" /\ idx' = idx)]_vars

\* the loop has just skipped a dead ray that is at or past the bounce limit
C4_Witness ==
    /\ lastOp = "skip"
    /\ idx > 1
    /\ ~rays[idx - 1].active
    /\ rays[idx - 1].bounces >= maxBounces

\* the exact crossing of the line x = terminationX by the segment p1 -> p2,
\* as the fraction CrossNum / CrossDen with CrossDen > 0 (p1.x # p2.x)
CrossDen(p1, p2) == Abs(p2.x - p1.x)

CrossNum(p1, p2) ==
    Sign(p2.x - p1.x) * (p1.y * (p2.x - p1.x) + (terminationX - p1.x) * (p2.y - p1.y))

\* the segment p1 -> p2 meets the line at a point with |y| <= terminationBounds
CrossesWithinBounds(p1, p2) ==
    /\ p1.x # p2.x
    /\ (p1.x - terminationX) * (p2.x - terminationX) <= 0
    /\ Abs(CrossNum(p1, p2)) <= terminationBounds * CrossDen(p1, p2)

\* C5: checkTerminationCollision returns true only if the ray is active, its
\* path has at least two points and the last segment of the path crosses
\* x = terminationX at a point with |y| <= terminationBounds; it returns
\* false for an inactive ray, for a path of fewer than two points and for a
\* last segment that does not cross within the bounds, whatever earlier
\* segments do; and a call that returns false changes neither the ray nor
\* the histogram.
C5_HitOnlyOnLastSegment ==
    ret.op = "checkTerminationCollision" =>
        LET path == ret.ray.path
            n    == Len(path)
        IN  /\ ret.value => /\ ret.ray.active
                            /\ n >= 2
                            /\ CrossesWithinBounds(path[n - 1], path[n])
            /\ (~ret.ray.active \/ n < 2) => ~ret.value
            /\ (n >= 2 /\ ~CrossesWithinBounds(path[n - 1], path[n])) => ~ret.value
            /\ ~ret.value => (rays[1] = ret.ray /\ terminationCounts = ret.counts)

\* an active ray whose first segment crosses the detector within the bounds
\* and whose last segment does not: the call returned false
C5_Witness ==
    /\ ret.op = "checkTerminationCollision"
    /\ ret.ray.active
    /\ Len(ret.ray.path) = 3
    /\ CrossesWithinBounds(ret.ray.path[1], ret.ray.path[2])
    /\ ~CrossesWithinBounds(ret.ray.path[2], ret.ray.path[3])
    /\ ~ret.value

\* C6: a call that returns true leaves the ray inactive at (terminationX, y),
\* y the crossing point of the last segment, and adds exactly one to the bin
\* k = floor(y / binSize) * binSize, the multiple of binSize with
\* k <= y < k + binSize (for negative y too); no other bin changes.
C6_HitSnapsAndBins ==
    (ret.op = "checkTerminationCollision" /\ ret.value) =>
        LET path == ret.ray.path
            p1   == path[Len(path) - 1]
            p2   == path[Len(path)]
            num  == CrossNum(p1, p2)
            den  == CrossDen(p1, p2)
            old  == ret.counts
        IN  /\ rays[1].x = terminationX
            /\ rays[1].y * den = num
            /\ ~rays[1].active
            /\ \E k \in DOMAIN terminationCounts :
                  /\ k % binSize = 0
                  /\ k * den <= num
                  /\ num < (k + binSize) * den
                  /\ terminationCounts[k] = (IF k \in DOMAIN old THEN old[k] ELSE 0) + 1
                  /\ DOMAIN terminationCounts = DOMAIN old \cup {k}
                  /\ \A b \in DOMAIN old : b # k => terminationCounts[b] = old[b]

\* a hit below the axis was counted in the bin -binSize
C6_Witness ==
    /\ ret.op = "checkTerminationCollision"
    /\ ret.value
    /\ rays[1].y < 0
    /\ -binSize \in DOMAIN terminationCounts
    /\ terminationCounts[-binSize] =
           (IF -binSize \in DOMAIN ret.counts THEN ret.counts[-binSize] ELSE 0) + 1

\* C7: a ray that a hit has made inactive is inactive afterwards, and
\* checkTerminationCollision called on an inactive ray returns false and
\* changes neither the ray nor the histogram: one ray is counted at most once.
C7_IdempotentPerRay ==
    ret.op = "checkTerminationCollision" =>
        /\ ret.value => ~rays[1].active
        /\ ~ret.ray.active => /\ ~ret.value
                              /\ rays[1] = ret.ray
                              /\ terminationCounts = ret.counts

\* the call was made on a ray that had already terminated on the detector
\* and whose last segment still ends on the detector line within the bounds
C7_Witness ==
    /\ ret.op = "checkTerminationCollision"
    /\ ~ret.ray.active
    /\ ret.ray.x = terminationX
    /\ Len(ret.ray.path) >= 2
    /\ CrossesWithinBounds(ret.ray.path[Len(ret.ray.path) - 1],
                           ret.ray.path[Len(ret.ray.path)])
    /\ ~ret.value

\* C8: when the tick is about to reflect a ray, the ray stands at the
\* intersection point the solver found (normal.x, normal.y in PosScale units).
C8_ReflectAtIntersection ==
    (pc = "reflect" /\ normal.ok) =>
        /\ rays[idx].x * PosScale = normal.x
        /\ rays[idx].y * PosScale = normal.y

\* C9: on an empty histogram fitGaussianToTerminationData and
\* fitKDEToTerminationData (any kernel, bandwidth given or not) return null.
C9_NullOnEmptyHistogram ==
    SumCounts(terminationCounts) = 0 =>
        /\ fitGaussianToTerminationData = Null
        /\ \A k \in FitKernels, h \in FitBandwidths :
               fitKDEToTerminationData(k, h) = Null

\* the histogram is empty because a reset has just dropped recorded hits
C9_Witness ==
    /\ ret.op = "clearTerminationCounts"
    /\ ret.cleared > 0
    /\ lastOp \in {"reset", "resetOverlays"}
    /\ terminationCounts = EmptyCounts

\* C10: on a non-empty histogram fitGaussianToTerminationData returns
\* totalHits = N = sum of the counts, mean = sum(pos * count) / N,
\* variance = sum(count * (pos - mean)^2) / N = (N * sum(count * pos^2) -
\* (sum(pos * count))^2) / N^2 and amplitude = the largest count; for
\* {0: 10, 50: 5, -50: 5} the mean is 0 and the amplitude 10.
C10_GaussianMoments ==
    (ret.op = "fitGaussianToTerminationData" /\ SumCounts(terminationCounts) > 0) =>
        LET c    == terminationCounts
            bins == DOMAIN c
            N    == SumCounts(c)
            S    == WeightedSum(c, bins, [b \in bins |-> b])
            S2   == WeightedSum(c, bins, [b \in bins |-> b * b])
            v    == ret.value
        IN  /\ v # Null
            /\ v.totalHits = N
            /\ Reduce(v.mean) = Reduce([num |-> S, den |-> N])
            /\ Reduce(v.variance) = Reduce([num |-> N * S2 - S * S, den |-> N * N])
            /\ \E b \in bins : c[b] = v.amplitude
            /\ \A b \in bins : c[b] <= v.amplitude
            /\ c = [b \in {-50, 0, 50} |-> IF b = 0 THEN 10 ELSE 5]
                   => (v.mean.num = 0 /\ v.amplitude = 10)

\* the fit of {0: 10, 50: 5, -50: 5} has been computed
C10_Witness ==
    /\ ret.op = "fitGaussianToTerminationData"
    /\ terminationCounts = [b \in {-50, 0, 50} |-> IF b = 0 THEN 10 ELSE 5]
    /\ ret.value.totalHits = 20
    /\ ret.value.amplitude = 10

\* C11: the accessors only read.  A call of fitGaussianToTerminationData,
\* fitKDEToTerminationData or getTerminationStats, and a write by the caller
\* into the snapshot it was handed, leave the histogram and every ray as they
\* were; and getTerminationStats called again after such a write, with no
\* termination or reset in between, returns what it returned before.
C11_AccessorsArePure ==
    [][/\ lastOp' \in {"fitGaussianToTerminationData", "fitKDEToTerminationData",
                       "getTerminationStats", "mutateSnapshot"}
            => (terminationCounts' = terminationCounts /\ rays' = rays)
       /\ (ret.op = "mutateSnapshot" /\ ret'.op = "getTerminationStats")
            => ret'.value = ret.orig
       /\ (ret.op = "getTerminationStats" /\ ret'.op = "getTerminationStats")
            => ret'.value = ret.value]_vars

\* a caller has written into a snapshot of a non-empty histogram while rays
\* are alive, and the snapshot now differs from the histogram
C11_Witness ==
    /\ ret.op = "mutateSnapshot"
    /\ ret.value.distribution # terminationCounts
    /\ ret.orig.distribution = terminationCounts
    /\ terminationCounts # EmptyCounts
    /\ rays # <<>>

\* C12: every ray of the live set has maxAge equal to the current rayLifetime,
\* in every state: a ray takes it at creation and updateValues writes the new
\* value into every live ray.
C12_MaxAgeIsRayLifetime ==
    \A i \in DOMAIN rays : rays[i].maxAge = rayLifetime

\* a ray older than the current lifetime allows a new ray to become: it was
\* created under a longer lifetime and rescaled by a later edit
C12_Witness ==
    /\ pc = "idle"
    /\ \E i \in DOMAIN rays : /\ rays[i].active
                              /\ rays[i].age > rayLifetime
                              /\ rays[i].maxAge = rayLifetime

(***************************************************************************)
(* C13: each call of emitNewRays appends exactly emissionRate new rays to  *)
(* the live set, each active with age 0, bounces 0, a one-point path and   *)
(* an origin on the source segment, and no ray already in the set changes. *)
(* emitNewRays runs in the step that starts a tick (pc leaves "idle")      *)
(* while the emission is due.                                              *)
(***************************************************************************)
\* p lies on the segment s: collinear with its endpoints and between them
OnSourceSegment(px, py, s) ==
    /\ (px - s.x1) * (s.y2 - s.y1) = (py - s.y1) * (s.x2 - s.x1)
    /\ LET dot == (px - s.x1) * (s.x2 - s.x1) + (py - s.y1) * (s.y2 - s.y1)
           len2 == (s.x2 - s.x1) * (s.x2 - s.x1) + (s.y2 - s.y1) * (s.y2 - s.y1)
       IN  0 <= dot /\ dot <= len2

FreshRay(r) ==
    /\ r.active
    /\ r.age = 0
    /\ r.bounces = 0
    /\ r.path = <<[x |-> r.x, y |-> r.y]>>
    /\ r.startX = r.x /\ r.startY = r.y
    /\ OnSourceSegment(r.x, r.y, computeSourceLine)

C13_EmitAppendsN ==
    [][(pc = "idle" /\ pc' # "idle" /\ EmissionDue)
         => /\ Len(rays') = Len(rays) + emissionRate
            /\ \A i \in 1..Len(rays) : rays'[i] = rays[i]
            /\ \A i \in (Len(rays) + 1)..Len(rays') : FreshRay(rays'[i])]_vars

\* emitNewRays has just appended a ray to a set that already held an aged one
C13_Witness ==
    /\ pc = "step" /\ idx = 1 /\ lastOp \in {"start", "frame"}
    /\ frameCount % Max2(1, 10 - emissionRate) = 0
    /\ Len(rays) > emissionRate
    /\ rays[1].age > 0
    /\ \A i \in (Len(rays) - emissionRate + 1)..Len(rays) : FreshRay(rays[i])

(***************************************************************************)
(* C14: emitting from a zero-length source segment (sourceLength = 0)      *)
(* fails with an InvalidGeometry error, and the failed call adds no ray to *)
(* the live set.                                                           *)
(***************************************************************************)
C14_ZeroLengthSourceFails ==
    (ret.op = "emitNewRays" /\ sourceLength = 0)
        => /\ ret.error = "InvalidGeometry"
           /\ Len(rays) = Len(ret.before)

\* what the call does instead: it returns normally and has pushed
\* emissionRate rays whose direction is NaN
C14_NaNRaysEmitted ==
    /\ ret.op = "emitNewRays" /\ sourceLength = 0
    /\ ret.error = "none"
    /\ Len(rays) = Len(ret.before) + emissionRate
    /\ rays[Len(rays)].dx = NaN

(***************************************************************************)
(* C15: for every ray and every step checkEllipseIntersection completes    *)
(* with a normal or with none; no error reaches the tick loop, also when a *)
(* candidate intersection exists while the constraint flags are false.     *)
(***************************************************************************)
C15_SolverNeverThrows ==
    /\ pc = "solve" => ~checkEllipseIntersection(rays[idx]).throws
    /\ lastOp # "throw"

\* a candidate exists on a reflector while a constraint flag is false, and
\* the call has raised the TypeError that ended the tick
C15_ThrowReached ==
    /\ lastOp = "throw" /\ pc = "idle"
    /\ idx \in DOMAIN rays
    /\ upperResult(rays[idx]).ok \/ lowerResult(rays[idx]).ok
    /\ ~enableProximityConstraint \/ ~enableApertureConstraint

(***************************************************************************)
(* C16: when both the upper and the lower reflector yield a valid          *)
(* candidate in the same step, checkEllipseIntersection returns the normal *)
(* of the candidate with the smaller traversal distance (t * rayLength,    *)
(* the same rayLength for both), whichever reflector was tested first.     *)
(***************************************************************************)
NearerNormals(u, l) ==
    IF u.tn * l.td < l.tn * u.td THEN {u.normal}
    ELSE IF l.tn * u.td < u.tn * l.td THEN {l.normal}
    ELSE {u.normal, l.normal}

C16_NearerCandidateWins ==
    (/\ ret.op = "checkEllipseIntersection"
     /\ upperResult(rays[1]).ok
     /\ lowerResult(rays[1]).ok)
        => /\ ret.error = "none"
           /\ ret.value \in NearerNormals(upperResult(rays[1]), lowerResult(rays[1]))

\* with both flags set the call returns, and it returns the nearer normal:
\* here the lower reflector's, although the upper reflector is tested first
C16_LowerNearerReturned ==
    /\ ret.op = "checkEllipseIntersection" /\ ret.error = "none"
    /\ upperResult(rays[1]).ok /\ lowerResult(rays[1]).ok
    /\ lowerResult(rays[1]).tn * upperResult(rays[1]).td
         < upperResult(rays[1]).tn * lowerResult(rays[1]).td
    /\ ret.value = lowerResult(rays[1]).normal
    /\ ret.value # upperResult(rays[1]).normal

(***************************************************************************)
(* C17: in findEllipseIntersection, when both roots of A t^2 + B t + C = 0 *)
(* lie in [0, 1] the smaller one is chosen, when exactly one lies in       *)
(* [0, 1] that one is chosen, when none does the result is none, and the   *)
(* returned point is ray position + step vector * t for the chosen t.      *)
(***************************************************************************)
\* the quadratic of a ray against a reflector, multiplied by a2 * b2 * phi.d^2
Quadratic(ray, g) ==
    LET rx  == (ray.x - g.h) * g.phi.c + (ray.y - g.k) * g.phi.s
        ry  == -(ray.x - g.h) * g.phi.s + (ray.y - g.k) * g.phi.c
        rdx == raySpeed * (ray.dx * g.phi.c + ray.dy * g.phi.s)
        rdy == raySpeed * (-ray.dx * g.phi.s + ray.dy * g.phi.c)
    IN  [A |-> rdx * rdx * g.b2 + rdy * rdy * g.a2,
         B |-> 2 * (rx * rdx * g.b2 + ry * rdy * g.a2),
         C |-> rx * rx * g.b2 + ry * ry * g.a2 - g.a2 * g.b2 * g.phi.d * g.phi.d]

\* its two roots as fractions <<num, den>> with den > 0, as the code's
\* formulas give them; a root with a zero divisor (NaN, Infinity) is left out
QuadraticRoots(q) ==
    LET s  == Isqrt(q.B * q.B - 4 * q.A * q.C)
        rs == IF q.B >= 0 THEN {<<-q.B - s, 2 * q.A>>, <<2 * q.C, -q.B - s>>}
                          ELSE {<<2 * q.C, -q.B + s>>, <<-q.B + s, 2 * q.A>>}
    IN  IF q.A = 0 \/ q.B * q.B - 4 * q.A * q.C < 0 THEN {}
        ELSE { <<Sign(r[2]) * r[1], Abs(r[2])>> : r \in { r \in rs : r[2] # 0 } }

RootsInUnit(q) == { r \in QuadraticRoots(q) : 0 <= r[1] /\ r[1] <= r[2] }

\* v is position + step * t, rounded to the nearest point in PosScale units
IsPointAt(v, ray, t) ==
    /\ 2 * Abs(v.x * t[2] - (ray.x * t[2] + ray.dx * raySpeed * t[1]) * PosScale) <= t[2]
    /\ 2 * Abs(v.y * t[2] - (ray.y * t[2] + ray.dy * raySpeed * t[1]) * PosScale) <= t[2]

ChosenRoot(v, ray, q) ==
    IF RootsInUnit(q) = {} THEN ~v.ok
    ELSE /\ v.ok
         /\ \E t \in RootsInUnit(q) :
              /\ v.tn * t[2] = t[1] * v.td
              /\ \A u \in RootsInUnit(q) : t[1] * u[2] <= u[1] * t[2]
              /\ IsPointAt(v, ray, t)

C17_SmallerRootChosen ==
    ret.op = "findEllipseIntersection"
        => ChosenRoot(ret.value, rays[1], Quadratic(rays[1], reflectorArgs(ret.ellipse)))

\* both roots lie in [0, 1] and differ, and the smaller one was returned
C17_Witness ==
    /\ ret.op = "findEllipseIntersection"
    /\ Cardinality(RootsInUnit(Quadratic(rays[1], reflectorArgs(ret.ellipse)))) = 2
    /\ \E t, u \in RootsInUnit(Quadratic(rays[1], reflectorArgs(ret.ellipse))) :
          /\ t[1] * u[2] < u[1] * t[2]
          /\ ret.value.ok /\ ret.value.tn * t[2] = t[1] * ret.value.td

(***************************************************************************)
(* C18: a candidate whose x coordinate lies outside the mask line's        *)
(* x-range [startX, endX] is rejected by the masking check                 *)
(* (isPointWithinMask returns false), for both reflectors.                 *)
(***************************************************************************)
OutsideMaskRange(x, maskLine) ==
    x < maskLine.startX * PosScale \/ x > maskLine.endX * PosScale

C18_OutsideRangeRejected ==
    (ret.op = "isPointWithinMask" /\ OutsideMaskRange(ret.x, getEllipseMaskLine(ret.lineType)))
        => ret.value = FALSE

\* C18 as the code has it: outside the x-range the check is permissive, the
\* candidate is accepted for both reflectors on either side of the line
C18_OutsideRangeAccepted ==
    (ret.op = "isPointWithinMask" /\ OutsideMaskRange(ret.x, getEllipseMaskLine(ret.lineType)))
        => ret.value = TRUE

\* an accepted point right of endX on the side the upper reflector masks
C18_Witness ==
    /\ ret.op = "isPointWithinMask" /\ ret.ellipse = "Upper" /\ ret.lineType = "upper"
    /\ ret.x > getEllipseMaskLine("upper").endX * PosScale
    /\ LineValue(ret.x, ret.y, getEllipseMaskLine("upper")) < 0
    /\ ret.value = TRUE

(***************************************************************************)
(* C19: mask exclusivity.  For a given mask line the upper reflector keeps *)
(* a candidate only if it lies below the line and the lower reflector only *)
(* if it lies above it (y grows downwards: the upper reflector is the one  *)
(* at smaller y, and below the line means y > slope * x + intercept), so a *)
(* point inside the x-range and strictly off the line is accepted by       *)
(* exactly one of the two conventions, and it is masked for the upper      *)
(* reflector exactly when isPointAboveMaskLine puts it on the excluded     *)
(* side.                                                                   *)
(***************************************************************************)
\* y - (slope * x + intercept), multiplied by the positive factor |sd|
OffsetFromLine(x, y, maskLine) ==
    Abs(maskLine.sd) * (y - maskLine.intercept * PosScale)
        - Sign(maskLine.sd) * maskLine.sn * x

OtherReflector(ellipse) == IF ellipse = "Upper" THEN "Lower" ELSE "Upper"

MaskExclusive(r, maskLine) ==
    LET off == OffsetFromLine(r.x, r.y, maskLine)
    IN  (~OutsideMaskRange(r.x, maskLine) /\ off # 0)
          => /\ (r.ellipse = "Upper" /\ r.value) => off > 0
             /\ (r.ellipse = "Lower" /\ r.value) => off < 0
             /\ r.value # isPointWithinMask(r.x, r.y, maskLine, OtherReflector(r.ellipse))
             /\ r.ellipse = "Upper"
                  => (~r.value <=> ~isPointAboveMaskLine(r.x, r.y, maskLine))

OutwardOrNone(r, g) ==
    IF r.x = g.h * PosScale /\ r.y = g.k * PosScale
    THEN ~r.value.ok
    ELSE /\ r.value.ok
         /\ r.value.x * (r.x - g.h * PosScale) + r.value.y * (r.y - g.k * PosScale) >= 0
         /\ ~(r.value.x = 0 /\ r.value.y = 0)

C20_NormalPointsOutward ==
    ret.op = "calculateEllipseNormal" => OutwardOrNone(ret, reflectorArgs(ret.ellipse))

\* a normal with both components non-zero, returned for a point off both axes
\* of the upper ellipse
C20_Witness ==
    /\ ret.op = "calculateEllipseNormal" /\ ret.ellipse = "Upper"
    /\ ret.x < reflectorArgs("Upper").h * PosScale
    /\ ret.y > reflectorArgs("Upper").k * PosScale
    /\ ret.value.ok /\ ret.value.x < 0 /\ ret.value.y > 0

\* the call at the centre of the lower ellipse returned no normal
C20_WitnessCentre ==
    /\ ret.op = "calculateEllipseNormal" /\ ret.ellipse = "Lower"
    /\ ret.x = reflectorArgs("Lower").h * PosScale
    /\ ret.y = reflectorArgs("Lower").k * PosScale
    /\ ~ret.value.ok

(***************************************************************************)
(* C21: for a ray at (-10, 0) with direction (1, 0), an unrotated ellipse  *)
(* centred at (0, 0) with semi-axes (5, 5), no masking and a step long     *)
(* enough to reach the ellipse (raySpeed >= 5), the solver reports the     *)
(* intersection at (-5, 0), the near crossing, with outward normal         *)
(* (-1, 0).                                                                *)
(***************************************************************************)
IsScenarioRay(r) == r.x = -10 /\ r.y = 0 /\ r.dx = 1 /\ r.dy = 0

C21_NearCrossingScenario ==
    (/\ ret.op = "solveUnmasked" /\ ret.a = 5 /\ ret.b = 5
     /\ IsScenarioRay(rays[1]) /\ raySpeed >= 5)
        => /\ ret.intersection.ok
           /\ ret.intersection.x = -5 * PosScale /\ ret.intersection.y = 0
           /\ ret.normal.ok
           /\ ret.normal.x = -NormScale /\ ret.normal.y = 0

\* the step spans both crossings, (-5, 0) and (5, 0), and the near one is
\* reported
C21_Witness ==
    /\ ret.op = "solveUnmasked" /\ ret.a = 5 /\ ret.b = 5
    /\ IsScenarioRay(rays[1]) /\ raySpeed = 20
    /\ ret.intersection.ok /\ ret.intersection.x = -5 * PosScale
    /\ ret.normal.ok /\ ret.normal.x = -NormScale

(***************************************************************************)
(* C22: for the histogram {0:10, 50:5, -50:5},                             *)
(* fitKDEToTerminationData('uniform', 25) expands the bins into 20 samples *)
(* (one per unit count at the bin position), and evaluateKDE, the sum of   *)
(* kernel((y - sample_i) / h) divided by n * h, is strictly higher at      *)
(* y = 0 than at y = 200.                                                  *)
(***************************************************************************)
ScenarioHistogram == [b \in {-50, 0, 50} |-> IF b = 0 THEN 10 ELSE 5]

IsScenarioFit(k) ==
    /\ k # Null
    /\ k.kernelType = "uniform" /\ k.bandwidth = 2500
    /\ Len(k.dataPoints) = 20
    /\ \A b \in {-50, 0, 50} :
         Cardinality({i \in DOMAIN k.dataPoints : k.dataPoints[i] = b})
           = ScenarioHistogram[b]

\* the uniform-kernel density at y for samples s and h = 25, times 2 * n * h:
\* the number of samples within h of y
SamplesWithin25(s, y) == Cardinality({i \in DOMAIN s : Abs(y - s[i]) <= 25})

C22_UniformKDEScenario ==
    /\ (/\ ret.op = "fitKDEToTerminationData"
        /\ ret.kernelType = "uniform" /\ ret.bandwidth = 2500
        /\ terminationCounts = ScenarioHistogram)
          => /\ IsScenarioFit(ret.value)
             /\ evaluateKDE(0, ret.value).den = evaluateKDE(200, ret.value).den
             /\ evaluateKDE(0, ret.value).num > evaluateKDE(200, ret.value).num
    /\ (ret.op = "evaluateKDE" /\ IsScenarioFit(ret.kdeParams))
          \* value = (samples within h) * 0.5 / (n * h), n = 20, h = 25
          => /\ ret.value.den > 0
             /\ ret.value.num * 2 * 20 * 25
                  = SamplesWithin25(ret.kdeParams.dataPoints, ret.y) * ret.value.den

\* the density 5 / (20 * 25) = 0.01 returned at y = 0 for the scenario's fit
C22_Witness ==
    /\ ret.op = "evaluateKDE" /\ ret.y = 0
    /\ terminationCounts = ScenarioHistogram
    /\ IsScenarioFit(ret.kdeParams)
    /\ ret.value.num * 100 = ret.value.den
    /\ evaluateKDE(200, ret.kdeParams).num = 0

(***************************************************************************)
(* C23: findKDEModes returns exactly the interior grid points whose        *)
(* density is strictly greater than at both neighbouring grid points,      *)
(* ordered by density in descending order; it returns an empty list when   *)
(* no fit is available.                                                    *)
(***************************************************************************)
\* the grid of a search over [-100, 100]
GridStep(resolution) == 200 \div resolution

InteriorPeaks(k, resolution) ==
    { y \in { -100 + i * GridStep(resolution) : i \in 1..(resolution - 1) } :
        /\ evaluateKDE(y, k).num > evaluateKDE(y - GridStep(resolution), k).num
        /\ evaluateKDE(y, k).num > evaluateKDE(y + GridStep(resolution), k).num }

IsModeList(modes, k, resolution) ==
    /\ { modes[n].position : n \in DOMAIN modes } = InteriorPeaks(k, resolution)
    /\ Len(modes) = Cardinality(InteriorPeaks(k, resolution))
    /\ \A n \in DOMAIN modes : modes[n].density = evaluateKDE(modes[n].position, k)
    /\ \A n1, n2 \in DOMAIN modes :
         n1 < n2 => modes[n1].density.num >= modes[n2].density.num

C23_ModesAreSortedPeaks ==
    ret.op = "findKDEModes"
        => IF ret.kdeParams = Null THEN ret.value = <<>>
           ELSE IsModeList(ret.value, ret.kdeParams, ret.resolution)

\* two peaks came back, the higher one first although it lies further right
C23_Witness ==
    /\ ret.op = "findKDEModes" /\ ret.kdeParams # Null
    /\ Len(ret.value) >= 2
    /\ ret.value[1].density.num > ret.value[2].density.num
    /\ ret.value[1].position > ret.value[2].position

\* without a fit the list is empty
C23_WitnessNoFit ==
    ret.op = "findKDEModes" /\ ret.kdeParams = Null /\ ret.value = <<>>

(***************************************************************************)
(* C24: after every completed tick (updateSimulation ran to its end) the   *)
(* live ray set holds only active rays: every ray that was inactive at the *)
(* end of the loop has been removed, and no active ray has been removed or *)
(* changed.                                                                *)
(***************************************************************************)
C24_OnlyActiveRaysSurvive ==
    [][lastOp' = "tick"
         => /\ \A j \in DOMAIN rays' : rays'[j].active
            /\ \A i \in DOMAIN rays :
                 rays[i].active <=> \E j \in DOMAIN rays' : rays'[j] = rays[i]
            /\ Len(rays') = Cardinality({i \in DOMAIN rays : rays[i].active})]_vars

\* a tick has just completed: it kept an active ray and an earlier ray is
\* gone from the set
C24_Witness ==
    /\ lastOp = "tick" /\ pc = "idle"
    /\ Len(rays) >= 1
    /\ \A i \in DOMAIN rays : rays[i].active /\ rays[i].age > 0
    /\ \E id \in 1..(nextRayId - 1) : \A i \in DOMAIN rays : rays[i].id # id

(***************************************************************************)
(* C25: step() deactivates a ray when its age reaches maxAge: right after  *)
(* a step of an active ray (age incremented by one), the ray is active     *)
(* only if its age is below maxAge, so a ray performs at most maxAge       *)
(* propagation steps.                                                      *)
(***************************************************************************)
C25_ActiveBelowMaxAge ==
    (pc = "solve" /\ lastOp = "step" /\ rays[idx].active)
        => rays[idx].age < rays[idx].maxAge

\* step() has just returned and left a ray active at age = maxAge: its next
\* step is propagation step number maxAge + 1
C25_ActiveAtMaxAge ==
    /\ pc = "solve" /\ lastOp = "step"
    /\ rays[idx].active
    /\ rays[idx].age = rays[idx].maxAge
    /\ rays[idx].maxAge = rayLifetime
    /\ Len(rays[idx].path) = rays[idx].maxAge + 1

(***************************************************************************)
(* C26: a Clear Rays click empties the live ray set and leaves the         *)
(* termination histogram and the running flag unchanged; a Reset Overlays  *)
(* click empties the termination histogram and leaves the live rays and    *)
(* the running flag unchanged.                                             *)
(***************************************************************************)
C26_ClearAndResetOverlaysFrames ==
    [][/\ lastOp' = "clearRay"
          => /\ rays' = <<>>
             /\ terminationCounts' = terminationCounts
             /\ isRunning' = isRunning
       /\ lastOp' = "resetOverlays"
          => /\ \A k \in DOMAIN terminationCounts' : terminationCounts'[k] = 0
             /\ rays' = rays
             /\ isRunning' = isRunning]_vars

\* Clear Rays was clicked on a running simulation that had emitted rays and
\* recorded hits: the rays are gone, the histogram and the pending frame stay
C26_Witness ==
    /\ lastOp = "clearRay"
    /\ rays = <<>>
    /\ nextRayId > 1
    /\ isRunning /\ pendingFrames # {}
    /\ \E k \in DOMAIN terminationCounts : terminationCounts[k] > 0

\* Reset Overlays was clicked on a running simulation with live rays and a
\* non-empty histogram
C26_WitnessOverlays ==
    /\ lastOp = "resetOverlays"
    /\ ret.op = "clearTerminationCounts" /\ ret.cleared > 0
    /\ Len(rays) >= 1
    /\ isRunning
    /\ \A k \in DOMAIN terminationCounts : terminationCounts[k] = 0

\* old is an initial part of new
IsPrefix(old, new) ==
    /\ Len(old) <= Len(new)
    /\ \A i \in 1..Len(old) : new[i] = old[i]

\* C27 as stated: a ray's path is append-only: every operation (step,
\* checkTerminationCollision) leaves the path unchanged or appends one point
\* at its end, and never modifies or removes a point already in the path,
\* also when the ray terminates at the detector.
C27_PathAppendOnly ==
    ret.op \in {"checkTerminationCollision", "step"} =>
        /\ IsPrefix(ret.ray.path, rays[1].path)
        /\ Len(rays[1].path) <= Len(ret.ray.path) + 1

\* C27 amended: step() only appends (one point, or none for an inactive or
\* aged-out ray) and no operation removes a point or modifies a point before
\* the last one; checkTerminationCollision keeps the length of the path and,
\* exactly when it returns true, overwrites the last point with the crossing
\* point of the last segment on the line x = terminationX.
C27_PathGrowsOrSnapsLast ==
    ret.op \in {"checkTerminationCollision", "step"} =>
        LET old == ret.ray.path
            new == rays[1].path
            n   == Len(old)
        IN  /\ Len(new) \in {n, n + 1}
            /\ IsPrefix(SubSeq(old, 1, n - 1), new)
            /\ ret.op = "step" => /\ new[n] = old[n]
                                  /\ Len(new) = n + 1 <=> (ret.ray.active /\ rays[1].age <= rays[1].maxAge)
            /\ ret.op = "checkTerminationCollision" =>
                  /\ Len(new) = n
                  /\ IF ret.value
                     THEN /\ new[n].x = terminationX
                          /\ new[n].y * CrossDen(old[n - 1], old[n]) = CrossNum(old[n - 1], old[n])
                     ELSE new = old

\* the detector check returned true on a path of three points whose last
\* point was off the line: the last point was overwritten, the first two kept
C27_Witness ==
    /\ ret.op = "checkTerminationCollision"
    /\ ret.value
    /\ Len(ret.ray.path) = 3
    /\ ret.ray.path[3].x # terminationX
    /\ rays[1].path[3] # ret.ray.path[3]
    /\ rays[1].path[1] = ret.ray.path[1]
    /\ rays[1].path[2] = ret.ray.path[2]

\* a step appended the point it moved to and the ray stayed active
C27_WitnessStep ==
    /\ ret.op = "step"
    /\ rays[1].active
    /\ Len(rays[1].path) = Len(ret.ray.path) + 1
    /\ rays[1].path[Len(rays[1].path)] = [x |-> rays[1].x, y |-> rays[1].y]

\* the emission period the claim gives: max(1, 10 - emissionRate)
EmissionPeriod == IF emissionRate >= 9 THEN 1 ELSE 10 - emissionRate

(***************************************************************************)
(* C28: updateSimulation emits new rays exactly on the ticks where         *)
(* frameCount mod max(1, 10 - emissionRate) = 0 (every tick when           *)
(* emissionRate >= 9); the emission comes before any existing ray is       *)
(* stepped (when the new rays are appended no ray of the set has moved or  *)
(* aged, and nothing is emitted once the loop over the rays is under way); *)
(* and frameCount grows by exactly one per tick, at its end.               *)
(***************************************************************************)
C28_EmissionSchedule ==
    [][/\ (pc = "idle" /\ pc' # "idle")
          => /\ IF frameCount % EmissionPeriod = 0
                THEN /\ Len(rays') = Len(rays) + emissionRate
                     /\ nextRayId' = nextRayId + emissionRate
                ELSE /\ Len(rays') = Len(rays)
                     /\ nextRayId' = nextRayId
             /\ \A i \in DOMAIN rays : /\ rays'[i].age = rays[i].age
                                       /\ rays'[i].x = rays[i].x
                                       /\ rays'[i].y = rays[i].y
                                       /\ rays'[i].path = rays[i].path
             /\ \A i \in (Len(rays) + 1)..Len(rays') : rays'[i].age = 0
       /\ pc # "idle" => /\ nextRayId' = nextRayId
                         /\ Len(rays') <= Len(rays)
       /\ frameCount' = IF lastOp' = "tick" THEN frameCount + 1 ELSE frameCount]_vars

\* with the slider at 9 or more, a frame callback has just started a tick
\* right after an emitting tick and has emitted again: the set holds rays of
\* the earlier tick, already stepped, and emissionRate fresh rays behind them
C28_Witness ==
    /\ emissionRate >= 9
    /\ lastOp = "frame" /\ pc = "step"
    /\ nextRayId > 2 * emissionRate
    /\ Len(rays) > emissionRate
    /\ rays[1].age >= 1
    /\ \A i \in (Len(rays) - emissionRate + 1)..Len(rays) : rays[i].age = 0

\* with a period of three ticks: a tick that emitted at a frame count that is
\* a positive multiple of three, and a tick that did not emit in between
C28_WitnessPeriodThree ==
    /\ emissionRate = 7
    /\ lastOp = "frame" /\ pc = "step"
    /\ frameCount > 0 /\ frameCount % 3 = 0
    /\ \E i \in DOMAIN rays : rays[i].age = 0

C28_WitnessNoEmission ==
    /\ emissionRate = 7
    /\ lastOp = "frame"
    /\ frameCount % 3 = 1
    /\ nextRayId > 1
    /\ \A i \in DOMAIN rays : rays[i].age > 0

C29_WitnessPending ==
    /\ lastOp = "tick"
    /\ isRunning
    /\ frameCount >= 2
    /\ pendingFrames = {frameCount}

(***************************************************************************)
(* C30: path length and age stay in step for every ray of the set: an      *)
(* active ray has path.length = age + 1 and its last path point is its     *)
(* current position; an inactive ray has path.length = age (it aged out:   *)
(* the step advanced position and age without recording a point) or        *)
(* path.length = age + 1.                                                  *)
(***************************************************************************)
C30_PathLengthTracksAge ==
    \A i \in DOMAIN rays :
        LET r == rays[i]
        IN  /\ r.active => /\ Len(r.path) = r.age + 1
                           /\ r.path[Len(r.path)] = [x |-> r.x, y |-> r.y]
            /\ ~r.active => Len(r.path) \in {r.age, r.age + 1}

\* the set holds a ray that has just aged out, one path point short of its
\* age and away from its last path point, next to an active ray that has
\* been stepped
C30_Witness ==
    \E i, j \in DOMAIN rays :
        /\ ~rays[i].active
        /\ rays[i].age > rays[i].maxAge
        /\ Len(rays[i].path) = rays[i].age
        /\ rays[i].path[Len(rays[i].path)] # [x |-> rays[i].x, y |-> rays[i].y]
        /\ rays[j].active
        /\ rays[j].age >= 1
        /\ Len(rays[j].path) = rays[j].age + 1

\* a ray terminated on the detector keeps path.length = age + 1
C30_WitnessTerminated ==
    \E i \in DOMAIN rays :
        /\ ~rays[i].active
        /\ rays[i].x = terminationX
        /\ rays[i].age <= rays[i].maxAge
        /\ Len(rays[i].path) = rays[i].age + 1

====
